---- MODULE Spec2Model ----
(***************************************************************************)
(* A model of the HQTS scheduler family: RedAqmQueue, StrictPriority-      *)
(* Scheduler, DrrScheduler, WrrScheduler and HfscScheduler.                *)
(*                                                                         *)
(* Vectors are sequences, so the C++ index i is the TLA+ index i + 1.      *)
(* Doubles are modelled as exact rationals [num, den]; every parameter set *)
(* used below is dyadic, so the rational arithmetic is the double          *)
(* arithmetic of the code.                                                 *)
(* The random sample of RED is a nondeterministic boolean: whether it fell *)
(* below the drop probability. WrrScheduler follows wrr_scheduler.cpp,     *)
(* which keeps plain FIFO queues. Each scheduler object has its own        *)
(* specification, in which the other objects stay as constructed.          *)
(***************************************************************************)
EXTENDS Integers, Sequences, FiniteSets, TLC

VARIABLES
    \* StrictPriorityScheduler
    priority_queues,          \* priority_queues_ : vector<RedAqmQueue>
    sp_total_packets,         \* total_packets_
    sp_calls,                 \* number of enqueue calls made so far; the next
                              \* packet is tagged flow_id = sp_calls + 1
    sp_result,                \* outcome of the last call
    \* DrrScheduler
    drr_queues,               \* queues_ : vector<InternalQueueState>
    drr_current_queue_index,  \* current_queue_index_
    drr_total_packets,        \* total_packets_
    drr_calls,                \* number of enqueue calls made so far
    drr_result,               \* outcome of the last call
    drr_run_bytes,            \* per queue, bytes served in the current run of
                              \* dequeues during which every queue stayed non-empty
    \* WrrScheduler
    wrr_queues, wrr_current_queue_index, wrr_total_packets, wrr_calls, wrr_result,
    wrr_run_packets, \* per queue, packets served in the current run of dequeues
                     \* during which every queue stayed non-empty
    \* HfscScheduler
    flow_states, current_virtual_time, hfsc_total_packets, eligible_set, is_configured,
    hfsc_calls, hfsc_result,
    hfsc_hist,       \* per flow, the schedule of its last two emitted packets
    hfsc_emitted,    \* number of packets emitted so far
    hfsc_prev_flow,  \* flow of the packet emitted before the last one
    \* One RedAqmQueue used on its own.
    aqm_queue,       \* the queue object
    aqm_calls,       \* number of enqueue calls made so far
    aqm_accepted,    \* number of enqueue calls that returned true
    aqm_dequeued,    \* number of dequeue calls that returned a packet
    aqm_prev,        \* the queue object as it was before the last call
    aqm_result,      \* outcome of the last call
    \* FlowClassifier and the FlowTable it fills, called from several threads.
    flow_key_to_flow_id_map,  \* FiveTuple -> FlowId
    next_flow_id,    \* the FlowId the next new flow gets
    default_policy_id,  \* the policy a new flow is bound to
    flow_table,      \* FlowId -> FlowContext
    fc_mutex,        \* the thread that holds mutex_, 0 when it is free
    fc_threads,      \* per thread: where it is in get_or_create_flow
    fc_returns,      \* the calls that returned, in order of their return
    fc_allocated,    \* the FlowIds taken from next_flow_id_, in order
    \* One TokenBucket and the steady clock it reads.
    tb,              \* the bucket object
    tb_now,          \* std::chrono::steady_clock::now(), in microseconds
    tb_calls,        \* number of calls made so far
    tb_prev,         \* the bucket object as it was before the last call
    tb_result,       \* the last call: its name, instant, argument and return value
    tb_unobserved,   \* a bucket that got the same consume and set calls at the
                     \* same instants, and no other call
    \* PacketPipeline over the FlowClassifier, a TrafficShaper and a
    \* StrictPriorityScheduler (the objects above), at the clock tb_now.
    policy_tree,     \* PolicyId -> ShapingPolicy
    pl_calls,        \* number of handle_incoming_packet calls made so far
    pl_result,       \* outcome of the last pipeline call
    pl_stored,       \* payloads the shaper let pass and the scheduler stored
    pl_dropped,      \* payloads the shaper dropped
    pl_emitted,      \* payloads get_next_packet_to_transmit returned, in order
    \* PolicyTree, the multi_index_container of ShapingPolicy.
    pt_tree,         \* the by_id view: PolicyId -> element
    pt_calls,        \* number of container calls made so far
    pt_result,       \* the last container call and what it returned
    \* A thread inside TrafficShaper::process_packet, next to the classifier's
    \* threads.
    shaper_thread,   \* its position and what it has read
    \* The WrrScheduler's replenishment cycle, for the observer.
    wrr_cycle        \* packets served per queue since the last replenishment,
                     \* and whether every queue held a packet at each of them

spVars == <<priority_queues, sp_total_packets, sp_calls, sp_result>>
drrVars == <<drr_queues, drr_current_queue_index, drr_total_packets, drr_calls,
             drr_result, drr_run_bytes>>

wrrVars == <<wrr_queues, wrr_current_queue_index, wrr_total_packets, wrr_calls,
             wrr_result, wrr_run_packets>>
hfscVars == <<flow_states, current_virtual_time, hfsc_total_packets, eligible_set,
              is_configured, hfsc_calls, hfsc_result, hfsc_hist, hfsc_emitted,
              hfsc_prev_flow>>
aqmVars == <<aqm_queue, aqm_calls, aqm_accepted, aqm_dequeued, aqm_prev, aqm_result>>
fcVars == <<flow_key_to_flow_id_map, next_flow_id, default_policy_id, flow_table,
            fc_mutex, fc_threads, fc_returns, fc_allocated>>
tbVars == <<tb, tb_now, tb_calls, tb_prev, tb_result, tb_unobserved>>
plVars == <<policy_tree, pl_calls, pl_result, pl_stored, pl_dropped, pl_emitted>>
ptVars == <<pt_tree, pt_calls, pt_result>>
shVars == <<shaper_thread>>
wrrCycleVars == <<wrr_cycle>>
vars == <<spVars, drrVars, wrrVars, hfscVars, aqmVars, fcVars, tbVars, plVars,
          ptVars, shVars, wrrCycleVars>>

-----------------------------------------------------------------------------
(* Bounds of the model.                                                    *)

\* Largest number of enqueue calls in one behaviour of a scheduler.
MaxEnqueueCalls == 4

\* Largest number of enqueue calls in one behaviour of the DRR scheduler.
DrrMaxEnqueueCalls == 4
DrrLiveMaxEnqueueCalls == 3
DrrFairMaxEnqueueCalls == 10
WrrMaxEnqueueCalls == 8
WrrFifoMaxEnqueueCalls == 4

\* queue_capacity_bytes of the RedAqmParameters a WRR queue is configured
\* with in AqmPhysicalCapacityDropInWrrQueue (100 bytes for packets of 50),
\* in the 1-byte packets offered to the WRR scheduler here.
WrrQueueCapacityBytes == 2

\* Largest number of packets handed to the PacketPipeline in one behaviour.
PlMaxPackets == 3

\* The same over a DrrScheduler.
PlDrrMaxPackets == 3

\* The last instant of the steady clock (in microseconds) under the pipeline.
PlMaxTime == 1

\* Largest number of TokenBucket calls in one behaviour, and the last instant
\* (in microseconds after construction) of the clock.
TbMaxCalls == 4
TbMaxTime == 4

\* Largest number of get_or_create_flow calls in one behaviour, all threads
\* together.
FcMaxCalls == 4

\* Largest number of enqueue calls in one behaviour of a RedAqmQueue on its own.
AqmMaxEnqueueCalls == 5
HfscMaxEnqueueCalls == 4

\* Lengths, in bytes, of the packets offered to the work-conserving schedulers.
PacketLengths == {1, 2}

-----------------------------------------------------------------------------
(* Rationals.                                                              *)

RECURSIVE GCD(_, _)
GCD(a, b) == IF b = 0 THEN a ELSE GCD(b, a % b)

Rat(n, d) ==
    LET g == GCD(IF n < 0 THEN -n ELSE n, d)
    IN  IF n = 0 THEN [num |-> 0, den |-> 1] ELSE [num |-> n \div g, den |-> d \div g]

RatLess(x, y) == x.num * y.den < y.num * x.den
RatLeq(x, y) == x.num * y.den <= y.num * x.den
RatOfInt(i) == [num |-> i, den |-> 1]

-----------------------------------------------------------------------------
(* PacketDescriptor and RedAqmQueue.                                       *)

PacketDescriptor(f_id, len, prio_val) ==
    [flow_id |-> f_id, packet_length_bytes |-> len, priority |-> prio_val]

\* The default-constructed descriptor.
DefaultPacket == PacketDescriptor(0, 0, 0)

RedAqmParameters(min_t, max_t, max_p, weight, capacity) ==
    [min_threshold_bytes |-> min_t, max_threshold_bytes |-> max_t,
     max_probability |-> max_p, ewma_weight |-> weight,
     queue_capacity_bytes |-> capacity]

\* The constructor's validity test.
RedAqmParametersValid(p) ==
    ~ (\/ p.min_threshold_bytes = 0 \/ p.max_threshold_bytes = 0
       \/ p.queue_capacity_bytes = 0
       \/ p.min_threshold_bytes >= p.max_threshold_bytes
       \/ p.max_threshold_bytes > p.queue_capacity_bytes
       \/ RatLeq(p.ewma_weight, RatOfInt(0)) \/ RatLeq(RatOfInt(1), p.ewma_weight)
       \/ RatLeq(p.max_probability, RatOfInt(0))
       \/ RatLess(RatOfInt(1), p.max_probability))

\* A queue that drops early (RED acts well below the capacity) and a queue
\* whose thresholds sit at the capacity (tail drop in effect).
AggressiveAqm == RedAqmParameters(1, 3, Rat(1, 2), Rat(1, 2), 6)
PermissiveAqm == RedAqmParameters(3, 4, Rat(1, 2), Rat(1, 2), 4)
AqmParamSet == {AggressiveAqm, PermissiveAqm}

RedAqmQueue(params) ==
    [params |-> params,
     packet_buffer |-> <<>>,
     average_queue_size_bytes |-> RatOfInt(0),
     current_total_bytes |-> 0,
     packets_since_last_drop |-> 0]

update_average_queue_size(q) ==
    LET w == q.params.ewma_weight
        a == q.average_queue_size_bytes
    IN  [q EXCEPT !.average_queue_size_bytes =
            Rat((w.den - w.num) * a.num + w.num * q.current_total_bytes * a.den,
                w.den * a.den)]

calculate_drop_probability(q) ==
    LET a == q.average_queue_size_bytes
        p == q.params
    IN  IF RatLess(a, RatOfInt(p.min_threshold_bytes)) THEN RatOfInt(0)
        ELSE IF RatLeq(RatOfInt(p.max_threshold_bytes), a) THEN p.max_probability
        ELSE Rat((a.num - p.min_threshold_bytes * a.den) * p.max_probability.num,
                 a.den * (p.max_threshold_bytes - p.min_threshold_bytes)
                       * p.max_probability.den)

\* Mutant: plain RED, the base probability whatever the count.
final_drop_prob_plain(q, p_b) == IF p_b.num > 0 THEN p_b ELSE RatOfInt(0)

\* final_drop_prob of RedAqmQueue::enqueue for base probability p_b. The code
\* tests denominator <= 1e-9; with the small rationals of the model a positive
\* denominator is never that small.
final_drop_prob(q, p_b) ==
    IF p_b.num > 0
    THEN LET dnum == p_b.den - q.packets_since_last_drop * p_b.num
         IN  IF dnum <= 0 THEN RatOfInt(1)
             ELSE IF p_b.num >= dnum THEN RatOfInt(1)
             ELSE Rat(p_b.num, dnum)
    ELSE RatOfInt(0)

\* The drop decision: sample_below says whether the uniform sample of [0,1)
\* fell below a drop probability strictly between 0 and 1.
red_drops(q, sample_below) ==
    LET f == final_drop_prob(q, calculate_drop_probability(q))
    IN  f.num > 0 /\ (RatLeq(RatOfInt(1), f) \/ sample_below)

\* Mutant: an enqueue that reports a RED drop as an acceptance.
AqmEnqueueDropReportedAccepted(q0, packet, sample_below) ==
    LET q == update_average_queue_size(q0)
    IN  IF q.current_total_bytes + packet.packet_length_bytes
              > q.params.queue_capacity_bytes
        THEN [queue |-> q, accepted |-> FALSE]
        ELSE IF red_drops(q, sample_below)
        THEN [queue |-> [q EXCEPT !.packets_since_last_drop = 0],
              accepted |-> TRUE]
        ELSE [queue |-> [q EXCEPT !.packets_since_last_drop = @ + 1,
                                  !.current_total_bytes = @ + packet.packet_length_bytes,
                                  !.packet_buffer = Append(@, packet)],
              accepted |-> TRUE]

\* An enqueue that counts a physical overflow as a RED drop.
AqmEnqueueOverflowAsRedDrop(q0, packet, sample_below) ==
    LET q == update_average_queue_size(q0)
    IN  IF q.current_total_bytes + packet.packet_length_bytes
              > q.params.queue_capacity_bytes
           \/ red_drops(q, sample_below)
        THEN [queue |-> [q EXCEPT !.packets_since_last_drop = 0],
              accepted |-> FALSE]
        ELSE [queue |-> [q EXCEPT !.packets_since_last_drop = @ + 1,
                                  !.current_total_bytes = @ + packet.packet_length_bytes,
                                  !.packet_buffer = Append(@, packet)],
              accepted |-> TRUE]

\* RedAqmQueue::enqueue: the queue after the call and the value returned.
AqmEnqueue(q0, packet, sample_below) ==
    LET q == update_average_queue_size(q0)
    IN  IF q.current_total_bytes + packet.packet_length_bytes
              > q.params.queue_capacity_bytes
        THEN [queue |-> q, accepted |-> FALSE]
        ELSE IF red_drops(q, sample_below)
        THEN [queue |-> [q EXCEPT !.packets_since_last_drop = 0],
              accepted |-> FALSE]
        ELSE [queue |-> [q EXCEPT !.packets_since_last_drop = @ + 1,
                                  !.current_total_bytes = @ + packet.packet_length_bytes,
                                  !.packet_buffer = Append(@, packet)],
              accepted |-> TRUE]

AqmIsEmpty(q) == q.packet_buffer = <<>>

\* The newest packet of the buffer instead of the oldest.
AqmBack(q) == q.packet_buffer[Len(q.packet_buffer)]

AqmFront(q) == Head(q.packet_buffer)

\* Mutant: a dequeue that also clears packets_since_last_drop.
AqmDequeueResettingCount(q) ==
    update_average_queue_size(
        [q EXCEPT !.packet_buffer = Tail(@),
                  !.current_total_bytes = @ - Head(q.packet_buffer).packet_length_bytes,
                  !.packets_since_last_drop = 0])

\* A dequeue that forgets to take the packet's length off the byte count.
AqmDequeueKeepingBytes(q) ==
    update_average_queue_size([q EXCEPT !.packet_buffer = Tail(@)])

\* RedAqmQueue::dequeue on a non-empty queue: the queue after the call.
AqmDequeue(q) ==
    update_average_queue_size(
        [q EXCEPT !.packet_buffer = Tail(@),
                  !.current_total_bytes = @ - Head(q.packet_buffer).packet_length_bytes])

NoResult == [op |-> "none", status |-> "none", packet |-> DefaultPacket]

\* A RedAqmQueue on its own, just constructed.
AqmConstruct(params) ==
    /\ aqm_queue = RedAqmQueue(params)
    /\ aqm_calls = 0
    /\ aqm_accepted = 0
    /\ aqm_dequeued = 0
    /\ aqm_prev = RedAqmQueue(params)
    /\ aqm_result = NoResult

AqmInit == \E params \in AqmParamSet : AqmConstruct(params)

\* Arguments offered to the RedAqmParameters constructor: thresholds and
\* capacity from 0 up, fractions below, at and above the ends of (0, 1].
RedByteArgs == 0..3

RedFractionArgs == {Rat(-1, 2), RatOfInt(0), Rat(1, 2), RatOfInt(1), Rat(3, 2)}

\* Before the constructor runs: its arguments are chosen, no queue exists.
RedAqmParametersInit ==
    /\ aqm_queue = <<>>
    /\ aqm_prev = <<>>
    /\ aqm_calls = 0
    /\ aqm_accepted = 0
    /\ aqm_dequeued = 0
    /\ \E min_t \in RedByteArgs, max_t \in RedByteArgs, capacity \in RedByteArgs,
          max_p \in RedFractionArgs, weight \in RedFractionArgs :
         aqm_result = [op |-> "none", status |-> "none", packet |-> DefaultPacket,
                       args |-> RedAqmParameters(min_t, max_t, max_p, weight, capacity)]

\* RedAqmParameters::RedAqmParameters, and a RedAqmQueue built from the
\* parameters when it returns.
RedAqmParametersConstruct ==
    /\ aqm_result.op = "none"
    /\ aqm_result' = [aqm_result EXCEPT
                        !.op = "RedAqmParameters",
                        !.status = IF RedAqmParametersValid(aqm_result.args) THEN "ok"
                                   ELSE "invalid_argument"]
    /\ aqm_queue' = IF RedAqmParametersValid(aqm_result.args)
                    THEN RedAqmQueue(aqm_result.args) ELSE aqm_queue
    /\ UNCHANGED <<aqm_calls, aqm_accepted, aqm_dequeued, aqm_prev>>

\* A call of enqueue; the packet carries the number of the call as flow_id.
AqmEnqueueCall ==
    /\ aqm_calls < AqmMaxEnqueueCalls
    /\ \E len \in PacketLengths, sample_below \in BOOLEAN :
         LET packet == PacketDescriptor(aqm_calls + 1, len, 0)
             r == AqmEnqueue(aqm_queue, packet, sample_below)
         IN  /\ aqm_queue' = r.queue
             /\ aqm_calls' = aqm_calls + 1
             /\ aqm_accepted' = IF r.accepted THEN aqm_accepted + 1 ELSE aqm_accepted
             /\ aqm_prev' = aqm_queue
             /\ aqm_result' = [op |-> "enqueue",
                               status |-> IF r.accepted THEN "ok" ELSE "rejected",
                               packet |-> packet]
             /\ UNCHANGED aqm_dequeued

\* A call of dequeue: std::runtime_error on an empty queue.
AqmDequeueCall ==
    /\ aqm_prev' = aqm_queue
    /\ UNCHANGED <<aqm_calls, aqm_accepted>>
    /\ IF AqmIsEmpty(aqm_queue)
       THEN /\ aqm_result' = [op |-> "dequeue", status |-> "runtime_error",
                              packet |-> DefaultPacket]
            /\ UNCHANGED <<aqm_queue, aqm_dequeued>>
       ELSE /\ aqm_result' = [op |-> "dequeue", status |-> "ok",
                              packet |-> AqmFront(aqm_queue)]
            /\ aqm_queue' = AqmDequeue(aqm_queue)
            /\ aqm_dequeued' = aqm_dequeued + 1

-----------------------------------------------------------------------------
(* TokenBucket. Instants are microseconds on the steady clock; the products  *)
(* elapsed * rate of the runs below stay far below 2^64.                     *)

Min(a, b) == IF a < b THEN a ELSE b

\* The constructor: the bucket starts full.
TokenBucket(rate_bps, capacity_bytes, now) ==
    [capacity_bytes |-> capacity_bytes, tokens_bytes |-> capacity_bytes,
     rate_bps |-> rate_bps, last_refill_time |-> now]

\* TokenBucket::refill at instant now.
refill(b, now) ==
    LET elapsed_microseconds == now - b.last_refill_time
        new_tokens == (elapsed_microseconds * b.rate_bps) \div (8 * 1000000)
    IN  [b EXCEPT !.tokens_bytes =
                    IF elapsed_microseconds > 0 /\ new_tokens > 0
                    THEN Min(b.capacity_bytes, b.tokens_bytes + new_tokens)
                    ELSE @,
                  !.last_refill_time = now]

\* A consume that asks for more than it takes.
consume_strict(b, now, tokens_to_consume) ==
    LET r == refill(b, now)
    IN  IF r.tokens_bytes > tokens_to_consume
        THEN [bucket |-> [r EXCEPT !.tokens_bytes = @ - tokens_to_consume],
              returned |-> TRUE]
        ELSE [bucket |-> r, returned |-> FALSE]

\* TokenBucket::consume: the bucket after the call and the value returned.
consume(b, now, tokens_to_consume) ==
    LET r == refill(b, now)
    IN  IF r.tokens_bytes >= tokens_to_consume
        THEN [bucket |-> [r EXCEPT !.tokens_bytes = @ - tokens_to_consume],
              returned |-> TRUE]
        ELSE [bucket |-> r, returned |-> FALSE]

available_tokens(b, now) ==
    LET r == refill(b, now) IN [bucket |-> r, returned |-> r.tokens_bytes]

is_conforming(b, now, packet_size_bytes) ==
    LET r == refill(b, now)
    IN  [bucket |-> r, returned |-> r.tokens_bytes >= packet_size_bytes]

set_rate(b, now, rate_bps) == [refill(b, now) EXCEPT !.rate_bps = rate_bps]

\* A set_capacity that keeps the tokens the bucket holds.
set_capacity_unclamped(b, now, capacity_bytes) ==
    [refill(b, now) EXCEPT !.capacity_bytes = capacity_bytes]

set_capacity(b, now, capacity_bytes) ==
    LET r == refill(b, now)
    IN  [r EXCEPT !.capacity_bytes = capacity_bytes,
                  !.tokens_bytes = Min(r.tokens_bytes, capacity_bytes)]

\* Rates tried: none, one byte every two microseconds, one byte a microsecond.
TbRates == {0, 4 * 1000000, 8 * 1000000}
TbCapacities == {0, 1, 3}
TbAmounts == {0, 1, 2}

TbConstruct(rate_bps, capacity_bytes) ==
    /\ tb = TokenBucket(rate_bps, capacity_bytes, 0)
    /\ tb_now = 0
    /\ tb_calls = 0
    /\ tb_prev = TokenBucket(rate_bps, capacity_bytes, 0)
    /\ tb_result = [op |-> "none", at |-> 0, arg |-> 0, returned |-> 0]
    /\ tb_unobserved = TokenBucket(rate_bps, capacity_bytes, 0)

TbInit == \E rate_bps \in TbRates, capacity_bytes \in TbCapacities :
              TbConstruct(rate_bps, capacity_bytes)

\* The steady clock moves on.
TbTick ==
    /\ tb_now < TbMaxTime
    /\ tb_now' = tb_now + 1
    /\ UNCHANGED <<tb, tb_calls, tb_prev, tb_result, tb_unobserved>>

TbCalled ==
    /\ tb_calls < TbMaxCalls
    /\ tb_calls' = tb_calls + 1
    /\ tb_prev' = tb
    /\ UNCHANGED tb_now

TbConsume ==
    /\ TbCalled
    /\ \E n \in TbAmounts :
         LET r == consume(tb, tb_now, n)
         IN  /\ tb' = r.bucket
             /\ tb_result' = [op |-> "consume", at |-> tb_now, arg |-> n, returned |-> r.returned]
             /\ tb_unobserved' = consume(tb_unobserved, tb_now, n).bucket

TbAvailableTokens ==
    /\ TbCalled
    /\ LET r == available_tokens(tb, tb_now)
       IN  /\ tb' = r.bucket
           /\ tb_result' = [op |-> "available_tokens", at |-> tb_now, arg |-> 0, returned |-> r.returned]
    /\ UNCHANGED tb_unobserved

TbIsConforming ==
    /\ TbCalled
    /\ \E n \in TbAmounts :
         LET r == is_conforming(tb, tb_now, n)
         IN  /\ tb' = r.bucket
             /\ tb_result' = [op |-> "is_conforming", at |-> tb_now, arg |-> n, returned |-> r.returned]
    /\ UNCHANGED tb_unobserved

TbSetRate ==
    /\ TbCalled
    /\ \E rate_bps \in TbRates :
         /\ tb' = set_rate(tb, tb_now, rate_bps)
         /\ tb_result' = [op |-> "set_rate", at |-> tb_now, arg |-> rate_bps, returned |-> 0]
         /\ tb_unobserved' = set_rate(tb_unobserved, tb_now, rate_bps)

TbSetCapacity ==
    /\ TbCalled
    /\ \E capacity_bytes \in TbCapacities :
         /\ tb' = set_capacity(tb, tb_now, capacity_bytes)
         /\ tb_result' = [op |-> "set_capacity", at |-> tb_now, arg |-> capacity_bytes, returned |-> 0]
         /\ tb_unobserved' = set_capacity(tb_unobserved, tb_now, capacity_bytes)

-----------------------------------------------------------------------------
(* FlowClassifier. get_or_create_flow runs under std::lock_guard on mutex_;  *)
(* its body is taken in steps so that calls of several threads interleave   *)
(* wherever the lock lets them.                                             *)

FiveTuple(src_ip, dest_ip, src_port, dest_port, proto) ==
    [source_ip |-> src_ip, dest_ip |-> dest_ip, source_port |-> src_port,
     dest_port |-> dest_port, protocol |-> proto]

\* The tuples of the ThreadSafety test: one every thread asks for and one of
\* each thread's own.
FcThreads == {1, 2}

FcTuples ==
    {FiveTuple(1020, 3040, 50, 60, 6)}
        \cup {FiveTuple(100 + i, 200 + i, 1, 2, 17) : i \in FcThreads}

DEFAULT_POLICY_ID == 199

FlowContext(f_id, p_id, q_id, d_policy) ==
    [flow_id |-> f_id, policy_id |-> p_id, queue_id |-> q_id, drop_policy |-> d_policy]

FcIdle == [pc |-> "idle"]

\* The calls begun so far.
FcCallsBegun ==
    Len(fc_returns) + Cardinality({t \in FcThreads : fc_threads[t].pc # "idle"})

FcConstruct(default_pid) ==
    /\ flow_key_to_flow_id_map = [k \in {} |-> 0]
    /\ next_flow_id = 1
    /\ default_policy_id = default_pid
    /\ flow_table = [k \in {} |-> 0]
    /\ fc_mutex = 0
    /\ fc_threads = [t \in FcThreads |-> FcIdle]
    /\ fc_returns = <<>>
    /\ fc_allocated = <<>>

FcInit == FcConstruct(DEFAULT_POLICY_ID)

\* A lock that every thread may take at any time.
MutexAlwaysFree(holder) == TRUE

\* std::mutex: lock() returns only while no thread holds the mutex.
MutexFree(holder) == holder = 0

\* A counter that hands out the same value again.
NextFlowIdStuck(id) == id

\* next_flow_id_++
NextFlowId(id) == id + 1

\* f with key k bound to v.
MapPut(f, k, v) == [x \in DOMAIN f \cup {k} |-> IF x = k THEN v ELSE f[x]]

\* A thread enters get_or_create_flow and takes the lock.
FcLock(t) ==
    /\ fc_threads[t].pc = "idle"
    /\ FcCallsBegun < FcMaxCalls
    /\ MutexFree(fc_mutex)
    /\ fc_mutex' = t
    /\ \E five_tuple \in FcTuples :
         fc_threads' = [fc_threads EXCEPT ![t] =
                          [pc |-> "find", five_tuple |-> five_tuple]]
    /\ UNCHANGED <<flow_key_to_flow_id_map, next_flow_id, default_policy_id, flow_table, fc_returns,
                   fc_allocated>>

\* flow_key_to_flow_id_map_.find: an existing flow's id is returned.
FcFind(t) ==
    /\ fc_threads[t].pc = "find"
    /\ LET th == fc_threads[t]
       IN  fc_threads' = [fc_threads EXCEPT ![t] =
             IF th.five_tuple \in DOMAIN flow_key_to_flow_id_map
             THEN [pc |-> "return", five_tuple |-> th.five_tuple,
                   id |-> flow_key_to_flow_id_map[th.five_tuple], created |-> FALSE]
             ELSE [pc |-> "allocate", five_tuple |-> th.five_tuple]]
    /\ UNCHANGED <<flow_key_to_flow_id_map, next_flow_id, default_policy_id, flow_table, fc_mutex,
                   fc_returns, fc_allocated>>

\* new_id = next_flow_id_++ and the map entry for the tuple.
FcAllocate(t) ==
    /\ fc_threads[t].pc = "allocate"
    /\ LET th == fc_threads[t]
           new_id == next_flow_id
       IN  /\ next_flow_id' = NextFlowId(next_flow_id)
           /\ flow_key_to_flow_id_map' =
                 MapPut(flow_key_to_flow_id_map, th.five_tuple, new_id)
           /\ fc_allocated' = Append(fc_allocated, new_id)
           /\ fc_threads' = [fc_threads EXCEPT ![t] =
                 [pc |-> "emplace", five_tuple |-> th.five_tuple,
                  id |-> new_id]]
    /\ UNCHANGED <<default_policy_id, flow_table, fc_mutex, fc_returns>>

\* flow_table_.emplace: no effect when the table already has the key.
FcEmplace(t) ==
    /\ fc_threads[t].pc = "emplace"
    /\ LET th == fc_threads[t]
       IN  /\ flow_table' =
                 IF th.id \in DOMAIN flow_table THEN flow_table
                 ELSE MapPut(flow_table, th.id,
                             FlowContext(th.id, default_policy_id, 0, "TAIL_DROP"))
           /\ fc_threads' = [fc_threads EXCEPT ![t] =
                 [pc |-> "return", five_tuple |-> th.five_tuple,
                  id |-> th.id, created |-> TRUE]]
    /\ UNCHANGED <<flow_key_to_flow_id_map, next_flow_id, default_policy_id, fc_mutex, fc_returns,
                   fc_allocated>>

\* The call returns and the lock_guard releases the mutex.
FcReturn(t) ==
    /\ fc_threads[t].pc = "return"
    /\ LET th == fc_threads[t]
       IN  /\ fc_returns' = Append(fc_returns,
                 [thread |-> t, five_tuple |-> th.five_tuple, id |-> th.id,
                  created |-> th.created])
           /\ fc_threads' = [fc_threads EXCEPT ![t] = FcIdle]
    /\ fc_mutex' = 0
    /\ UNCHANGED <<flow_key_to_flow_id_map, next_flow_id, default_policy_id, flow_table, fc_allocated>>

-----------------------------------------------------------------------------
(* StrictPriorityScheduler.                                                *)

num_levels == Len(priority_queues)

\* The constructor arguments tried: one RedAqmParameters per level.
SpConfigs == {<<PermissiveAqm, AggressiveAqm>>,
              <<AggressiveAqm, PermissiveAqm, PermissiveAqm>>}

SpInit ==
    /\ priority_queues \in {[i \in 1..Len(c) |-> RedAqmQueue(c[i])] : c \in SpConfigs}
    /\ sp_total_packets = 0
    /\ sp_calls = 0
    /\ sp_result = NoResult

SpIsEmpty == sp_total_packets = 0

\* The scan of dequeue: the C++ index of the first non-empty queue met when
\* going from num_levels_ - 1 down to 0, or -1 when every queue is empty.
RECURSIVE ScanFromTop(_, _)
ScanFromTop(queues, k) ==
    IF k < 0 THEN -1
    ELSE IF ~ AqmIsEmpty(queues[k + 1]) THEN k
    ELSE ScanFromTop(queues, k - 1)

RECURSIVE ScanFromBottom(_, _)
ScanFromBottom(queues, k) ==
    IF k >= Len(queues) THEN -1
    ELSE IF ~ AqmIsEmpty(queues[k + 1]) THEN k
    ELSE ScanFromBottom(queues, k + 1)

\* Mutant: the scan runs from level 0 upwards.
SelectedLevelLowestFirst(queues) == ScanFromBottom(queues, 0)

SelectedLevel(queues) == ScanFromTop(queues, Len(queues) - 1)

SpEnqueue(packet, sample_below) ==
    /\ sp_calls' = sp_calls + 1
    /\ IF packet.priority >= num_levels
       THEN /\ sp_result' = [op |-> "enqueue", status |-> "out_of_range", packet |-> packet]
            /\ UNCHANGED <<priority_queues, sp_total_packets>>
       ELSE LET r == AqmEnqueue(priority_queues[packet.priority + 1], packet, sample_below)
            IN  /\ priority_queues' = [priority_queues EXCEPT ![packet.priority + 1] = r.queue]
                /\ sp_total_packets' = IF r.accepted THEN sp_total_packets + 1
                                       ELSE sp_total_packets
                /\ sp_result' = [op |-> "enqueue",
                                 status |-> IF r.accepted THEN "ok" ELSE "dropped",
                                 packet |-> packet]

SpDequeue ==
    /\ UNCHANGED sp_calls
    /\ IF SpIsEmpty
       THEN /\ sp_result' = [op |-> "dequeue", status |-> "runtime_error", packet |-> DefaultPacket]
            /\ UNCHANGED <<priority_queues, sp_total_packets>>
       ELSE LET k == SelectedLevel(priority_queues)
            IN  IF k < 0
                THEN /\ sp_result' = [op |-> "dequeue", status |-> "logic_error",
                                      packet |-> DefaultPacket]
                     /\ UNCHANGED <<priority_queues, sp_total_packets>>
                ELSE /\ sp_result' = [op |-> "dequeue", status |-> "ok",
                                      packet |-> AqmFront(priority_queues[k + 1])]
                     /\ priority_queues' = [priority_queues EXCEPT ![k + 1] = AqmDequeue(@)]
                     /\ sp_total_packets' = sp_total_packets - 1

SpEnqueueCall ==
    /\ sp_calls < MaxEnqueueCalls
    /\ \E len \in PacketLengths, prio \in 0..num_levels, sample_below \in BOOLEAN :
         SpEnqueue(PacketDescriptor(sp_calls + 1, len, prio), sample_below)

-----------------------------------------------------------------------------
(* DrrScheduler.                                                           *)

\* A QueueConfig of the constructor.
DrrQueueConfig(q_id, q_bytes, aqm_p) ==
    [id |-> q_id, quantum_bytes |-> q_bytes, aqm_params |-> aqm_p]

DrrInternalQueueState(ext_id, q_bytes, aqm_p) ==
    [packet_queue |-> RedAqmQueue(aqm_p), quantum_bytes |-> q_bytes,
     deficit_counter |-> 0, external_id |-> ext_id]

\* A lookup that falls back on the first queue.
DrrIndexOfOrFirst(queues, ext_id) ==
    IF \E i \in 1..Len(queues) : queues[i].external_id = ext_id
    THEN (CHOOSE i \in 1..Len(queues) : queues[i].external_id = ext_id) - 1
    ELSE 0

\* queue_id_to_index_: the C++ index of the queue with this external id, or -1.
DrrIndexOf(queues, ext_id) ==
    IF \E i \in 1..Len(queues) : queues[i].external_id = ext_id
    THEN (CHOOSE i \in 1..Len(queues) : queues[i].external_id = ext_id) - 1
    ELSE -1

\* Lengths of the packets offered to the DRR scheduler: one within every
\* quantum used below and one longer than two of the smallest quantum.
DrrPacketLengths == {1, 3}

\* The constructor arguments tried (queue ids 0 and 1, as in the tests).
DrrConfigs ==
    {<<DrrQueueConfig(0, 1, PermissiveAqm), DrrQueueConfig(1, 2, AggressiveAqm)>>,
     <<DrrQueueConfig(0, 2, AggressiveAqm), DrrQueueConfig(1, 1, PermissiveAqm)>>}

DrrConstruct(cfg) ==
    /\ drr_queues = [i \in 1..Len(cfg) |->
                       DrrInternalQueueState(cfg[i].id, cfg[i].quantum_bytes,
                                             cfg[i].aqm_params)]
    /\ drr_current_queue_index = 0
    /\ drr_total_packets = 0
    /\ drr_calls = 0
    /\ drr_result = NoResult
    /\ drr_run_bytes = [i \in 1..Len(cfg) |-> 0]

DrrInit == \E cfg \in DrrConfigs : DrrConstruct(cfg)

DrrIsEmpty == drr_total_packets = 0

DrrAllBacklogged(queues) ==
    \A i \in 1..Len(queues) : ~ AqmIsEmpty(queues[i].packet_queue)

\* Mutant: a visit that cannot send forgets the quantum it added.
DrrVisitLosingDeficit(q) ==
    LET d == q.deficit_counter + q.quantum_bytes
        front == AqmFront(q.packet_queue)
    IN  IF d >= front.packet_length_bytes
        THEN [state |-> [q EXCEPT !.deficit_counter = d - front.packet_length_bytes,
                                  !.packet_queue = AqmDequeue(@)],
              sent |-> TRUE, packet |-> front]
        ELSE [state |-> q, sent |-> FALSE, packet |-> DefaultPacket]

\* One visit of dequeue's loop to a non-empty queue: the quantum is added,
\* and the head packet is sent iff the deficit now covers its length.
DrrVisit(q) ==
    LET d == q.deficit_counter + q.quantum_bytes
        front == AqmFront(q.packet_queue)
    IN  IF d >= front.packet_length_bytes
        THEN [state |-> [q EXCEPT !.deficit_counter = d - front.packet_length_bytes,
                                  !.packet_queue = AqmDequeue(@)],
              sent |-> TRUE, packet |-> front]
        ELSE [state |-> [q EXCEPT !.deficit_counter = d],
              sent |-> FALSE, packet |-> DefaultPacket]

\* The while loop of dequeue, from cursor idx with search_attempts made.
RECURSIVE DrrSearch(_, _, _)
DrrSearch(queues, idx, search_attempts) ==
    LET n == Len(queues)
        next == (idx + 1) % n
    IN  IF search_attempts >= n * 2
        THEN [queues |-> queues, index |-> idx, sent |-> FALSE, from |-> -1,
              packet |-> DefaultPacket]
        ELSE IF ~ AqmIsEmpty(queues[idx + 1].packet_queue)
        THEN LET v == DrrVisit(queues[idx + 1])
                 qs == [queues EXCEPT ![idx + 1] = v.state]
             IN  IF v.sent
                 THEN [queues |-> qs, index |-> next, sent |-> TRUE, from |-> idx,
                       packet |-> v.packet]
                 ELSE DrrSearch(qs, next, search_attempts + 1)
        ELSE DrrSearch(queues, next, search_attempts + 1)

DrrEnqueue(packet, sample_below) ==
    LET idx == DrrIndexOf(drr_queues, packet.priority)
    IN  /\ drr_calls' = drr_calls + 1
        /\ UNCHANGED drr_current_queue_index
        /\ IF idx < 0
           THEN /\ drr_result' = [op |-> "enqueue", status |-> "out_of_range",
                                  packet |-> packet]
                /\ UNCHANGED <<drr_queues, drr_total_packets, drr_run_bytes>>
           ELSE LET r == AqmEnqueue(drr_queues[idx + 1].packet_queue, packet, sample_below)
                    qs == [drr_queues EXCEPT ![idx + 1].packet_queue = r.queue]
                IN  /\ drr_queues' = qs
                    /\ drr_total_packets' = IF r.accepted THEN drr_total_packets + 1
                                            ELSE drr_total_packets
                    /\ drr_result' = [op |-> "enqueue",
                                      status |-> IF r.accepted THEN "ok" ELSE "dropped",
                                      packet |-> packet]
                    /\ UNCHANGED drr_run_bytes

DrrDequeue ==
    /\ UNCHANGED drr_calls
    /\ IF DrrIsEmpty
       THEN /\ drr_result' = [op |-> "dequeue", status |-> "runtime_error",
                              packet |-> DefaultPacket]
            /\ UNCHANGED <<drr_queues, drr_current_queue_index, drr_total_packets,
                           drr_run_bytes>>
       ELSE LET r == DrrSearch(drr_queues, drr_current_queue_index, 0)
            IN  /\ drr_queues' = r.queues
                /\ drr_current_queue_index' = r.index
                /\ IF r.sent
                   THEN /\ drr_total_packets' = drr_total_packets - 1
                        /\ drr_result' = [op |-> "dequeue", status |-> "ok",
                                          packet |-> r.packet]
                        /\ drr_run_bytes' =
                             IF DrrAllBacklogged(drr_queues) /\ DrrAllBacklogged(r.queues)
                             THEN [drr_run_bytes EXCEPT
                                     ![r.from + 1] = @ + r.packet.packet_length_bytes]
                             ELSE [i \in DOMAIN drr_run_bytes |-> 0]
                   ELSE /\ drr_total_packets' = drr_total_packets
                        /\ drr_result' = [op |-> "dequeue",
                                          status |-> IF drr_total_packets > 0
                                                     THEN "logic_error"
                                                     ELSE "runtime_error",
                                          packet |-> DefaultPacket]
                        /\ UNCHANGED drr_run_bytes

DrrEnqueueCall(max_calls) ==
    /\ drr_calls < max_calls
    /\ \E len \in DrrPacketLengths, qid \in 0..Len(drr_queues), sample_below \in BOOLEAN :
         DrrEnqueue(PacketDescriptor(drr_calls + 1, len, qid), sample_below)

\* The run used for progress: one configuration whose first quantum is a
\* third of the long packet, and fewer enqueue calls.
DrrLiveInit ==
    DrrConstruct(<<DrrQueueConfig(0, 1, PermissiveAqm), DrrQueueConfig(1, 2, AggressiveAqm)>>)

\* The run used for fairness, after FairnessDifferentQuantumsEqualSizePackets
\* in units of 100 bytes: quanta 1 and 2, equal-size packets of length 1, and
\* queues roomy enough that RED never drops.
RoomyAqm == RedAqmParameters(16, 32, Rat(1, 2), Rat(1, 2), 32)

DrrFairPacketLengths == {1}

DrrFairInit ==
    DrrConstruct(<<DrrQueueConfig(0, 1, RoomyAqm), DrrQueueConfig(1, 2, RoomyAqm)>>)

\* The queues are filled first and drained afterwards.
DrrFairEnqueueCall ==
    /\ drr_calls < DrrFairMaxEnqueueCalls
    /\ drr_result.op # "dequeue"
    /\ \E len \in DrrFairPacketLengths, qid \in {0, 1}, sample_below \in BOOLEAN :
         DrrEnqueue(PacketDescriptor(qid, len, qid), sample_below)

-----------------------------------------------------------------------------
(* WrrScheduler (wrr_scheduler.cpp: plain FIFO queues, one deficit each).  *)

WrrQueueConfig(q_id, w) == [id |-> q_id, weight |-> w]

WrrInternalQueueState(ext_id, w) ==
    [packet_queue |-> <<>>, weight |-> w, current_deficit |-> 0, external_id |-> ext_id]

WrrConfigs ==
    {<<WrrQueueConfig(0, 1), WrrQueueConfig(1, 1)>>,
     <<WrrQueueConfig(0, 2), WrrQueueConfig(1, 1)>>}

\* The constructor: every deficit starts at the queue's weight.
WrrConstruct(cfg) ==
    /\ wrr_queues = [i \in 1..Len(cfg) |->
                       [WrrInternalQueueState(cfg[i].id, cfg[i].weight)
                          EXCEPT !.current_deficit = cfg[i].weight]]
    /\ wrr_current_queue_index = 0
    /\ wrr_total_packets = 0
    /\ wrr_calls = 0
    /\ wrr_result = NoResult
    /\ wrr_run_packets = [i \in 1..Len(cfg) |-> 0]

WrrInit == \E cfg \in WrrConfigs : WrrConstruct(cfg)

\* The configurations of the cycle runs: the test's weights 1 and 2, and
\* weights 2 and 1.
WrrCycleConfigs ==
    {<<WrrQueueConfig(0, 1), WrrQueueConfig(1, 2)>>,
     <<WrrQueueConfig(0, 2), WrrQueueConfig(1, 1)>>}

WrrCycleMaxEnqueueCalls == 8

WrrIsEmpty == wrr_total_packets = 0

WrrIndexOf(queues, ext_id) ==
    IF \E i \in 1..Len(queues) : queues[i].external_id = ext_id
    THEN (CHOOSE i \in 1..Len(queues) : queues[i].external_id = ext_id) - 1
    ELSE -1

WrrAllBacklogged(queues) == \A i \in 1..Len(queues) : queues[i].packet_queue # <<>>

\* Mutant: a replenishment that credits every queue twice its weight.
replenish_all_deficits_twice(queues) ==
    [i \in 1..Len(queues) |->
        [queues[i] EXCEPT !.current_deficit = @ + 2 * queues[i].weight]]

replenish_all_deficits(queues) ==
    [i \in 1..Len(queues) |-> [queues[i] EXCEPT !.current_deficit = @ + queues[i].weight]]

\* The for loop of dequeue: the first queue, from the cursor round, that holds
\* a packet and has deficit left; -1 when there is none.
RECURSIVE WrrScan(_, _, _)
WrrScan(queues, start, i) ==
    LET n == Len(queues)
        actual_index == (start + i) % n
    IN  IF i >= n THEN -1
        ELSE IF queues[actual_index + 1].packet_queue # <<>>
                /\ queues[actual_index + 1].current_deficit > 0
        THEN actual_index
        ELSE WrrScan(queues, start, i + 1)

WrrEnqueue(packet) ==
    LET idx == WrrIndexOf(wrr_queues, packet.priority)
    IN  /\ wrr_calls' = wrr_calls + 1
        /\ UNCHANGED wrr_current_queue_index
        /\ IF idx < 0
           THEN /\ wrr_result' = [op |-> "enqueue", status |-> "out_of_range",
                                  packet |-> packet]
                /\ UNCHANGED <<wrr_queues, wrr_total_packets, wrr_run_packets>>
           ELSE LET qs == [wrr_queues EXCEPT ![idx + 1].packet_queue = Append(@, packet)]
                IN  /\ wrr_queues' = qs
                    /\ wrr_total_packets' = wrr_total_packets + 1
                    /\ wrr_result' = [op |-> "enqueue", status |-> "ok", packet |-> packet]
                    /\ UNCHANGED wrr_run_packets

WrrDequeue ==
    /\ UNCHANGED wrr_calls
    /\ IF WrrIsEmpty
       THEN /\ wrr_result' = [op |-> "dequeue", status |-> "runtime_error",
                              packet |-> DefaultPacket]
            /\ UNCHANGED <<wrr_queues, wrr_current_queue_index, wrr_total_packets,
                           wrr_run_packets>>
       ELSE LET first == WrrScan(wrr_queues, wrr_current_queue_index, 0)
                qs == IF first >= 0 THEN wrr_queues ELSE replenish_all_deficits(wrr_queues)
                k == IF first >= 0 THEN first
                     ELSE WrrScan(qs, wrr_current_queue_index, 0)
            IN  IF k < 0
                THEN /\ wrr_queues' = qs
                     /\ wrr_result' = [op |-> "dequeue", status |-> "logic_error",
                                       packet |-> DefaultPacket]
                     /\ UNCHANGED <<wrr_current_queue_index, wrr_total_packets,
                                    wrr_run_packets>>
                ELSE LET after == [qs EXCEPT ![k + 1].packet_queue = Tail(@),
                                             ![k + 1].current_deficit = @ - 1]
                     IN  /\ wrr_queues' = after
                         /\ wrr_total_packets' = wrr_total_packets - 1
                         /\ wrr_current_queue_index' = (k + 1) % Len(wrr_queues)
                         /\ wrr_result' = [op |-> "dequeue", status |-> "ok",
                                           packet |-> Head(qs[k + 1].packet_queue)]
                         /\ wrr_run_packets' =
                              IF WrrAllBacklogged(wrr_queues) /\ WrrAllBacklogged(after)
                              THEN [wrr_run_packets EXCEPT ![k + 1] = @ + 1]
                              ELSE [i \in DOMAIN wrr_run_packets |-> 0]

WrrEnqueueCall(max_calls) ==
    /\ wrr_calls < max_calls
    /\ \E qid \in 0..Len(wrr_queues) : WrrEnqueue(PacketDescriptor(wrr_calls + 1, 1, qid))

\* The replenishment cycle as an observer of the scheduler sees it: a cycle
\* starts at the constructor and at every dequeue that calls
\* replenish_all_deficits.
WrrCycleConstruct(cfg) ==
    wrr_cycle = [served |-> [i \in 1..Len(cfg) |-> 0], backlogged |-> TRUE]

\* Whether dequeue, on the scheduler as it is, calls replenish_all_deficits.
WrrReplenishes ==
    ~ WrrIsEmpty /\ WrrScan(wrr_queues, wrr_current_queue_index, 0) < 0

\* The C++ index of the queue the last dequeue took its packet from.
WrrServedIndex(queues, cursor_after) == (cursor_after + Len(queues) - 1) % Len(queues)

\* dequeue, with the observer keeping the cycle's account.
WrrCycleDequeue ==
    /\ WrrDequeue
    /\ IF wrr_result'.status # "ok" THEN UNCHANGED wrr_cycle
       ELSE LET k == WrrServedIndex(wrr_queues, wrr_current_queue_index')
                zero == [i \in DOMAIN wrr_queues |-> 0]
                before == IF WrrReplenishes
                          THEN [served |-> zero, backlogged |-> TRUE]
                          ELSE wrr_cycle
            IN  wrr_cycle' =
                  [served |-> [before.served EXCEPT ![k + 1] = @ + 1],
                   backlogged |-> before.backlogged /\ WrrAllBacklogged(wrr_queues)]

-----------------------------------------------------------------------------
(* HfscScheduler. Times are uint64_t microseconds; the runs below stay far  *)
(* from wrapping. flow_states_ is a function from configured flow ids, and *)
(* eligible_set_ (a min-heap on (virtual_finish_time, flow_id)) a sequence *)
(* kept in that order, its top at the head.                                *)

\* std::numeric_limits<uint64_t>::max(), only ever compared for equality.
UINT64_MAX == -1

Max(a, b) == IF a >= b THEN a ELSE b

ServiceCurve(r, d) == [rate_bps |-> r, delay_us |-> d]

EmptyCurve == ServiceCurve(0, 0)

FlowConfig(flow_id, p_id, rt_sc, ls_sc, ul_sc) ==
    [id |-> flow_id, parent_id |-> p_id, real_time_sc |-> rt_sc,
     link_share_sc |-> ls_sc, upper_limit_sc |-> ul_sc]

HfscFlowState(fc) ==
    [flow_id |-> fc.id, packet_queue |-> <<>>,
     real_time_sc |-> fc.real_time_sc, link_share_sc |-> fc.link_share_sc,
     upper_limit_sc |-> fc.upper_limit_sc,
     virtual_start_time |-> 0, virtual_finish_time |-> 0,
     virtual_finish_time_ul |-> 0, parent_id |-> fc.parent_id]

EligibleFlow(vft, f_id) == [virtual_finish_time |-> vft, flow_id |-> f_id]

\* Mutant: equal finish times ordered by descending flow id.
EligibleFlowGreaterTieDescending(a, b) ==
    IF a.virtual_finish_time # b.virtual_finish_time
    THEN a.virtual_finish_time > b.virtual_finish_time
    ELSE a.flow_id < b.flow_id

\* EligibleFlow::operator>
EligibleFlowGreater(a, b) ==
    IF a.virtual_finish_time # b.virtual_finish_time
    THEN a.virtual_finish_time > b.virtual_finish_time
    ELSE a.flow_id > b.flow_id

\* Mutant: a push that loses the entry.
EligibleSetPushLost(es, entry) == es

\* eligible_set_.push: the new entry goes before the first entry greater than it.
RECURSIVE EligibleSetPush(_, _)
EligibleSetPush(es, entry) ==
    IF es = <<>> THEN <<entry>>
    ELSE IF EligibleFlowGreater(Head(es), entry) THEN <<entry>> \o es
    ELSE <<Head(es)>> \o EligibleSetPush(Tail(es), entry)

\* (packet_length_bytes * 8 * 1000000) / rate_bps in 64-bit arithmetic; the
\* fraction 1000000 / rate_bps is reduced first, which leaves the quotient as it is.
calculate_packet_service_time_us(packet_length_bytes, sc) ==
    IF sc.rate_bps = 0 THEN UINT64_MAX
    ELSE LET g == GCD(1000000, sc.rate_bps)
         IN  (packet_length_bytes * 8 * (1000000 \div g)) \div (sc.rate_bps \div g)

\* Mutant: a newly active flow starts from its own stale finish time.
base_eligible_time_of_flow_only(cvt, flow_vft, is_newly_active) ==
    IF is_newly_active THEN flow_vft ELSE cvt

base_eligible_time(cvt, flow_vft, is_newly_active) ==
    IF is_newly_active THEN Max(cvt, flow_vft) ELSE cvt

\* Step 1 of scheduling: the RT or LS curve with the earlier finish time.
ChooseCurve(base, len, rt, ls) ==
    LET rt_valid == rt.rate_bps > 0
        ls_valid == ls.rate_bps > 0
        eligible_time_rt == base + rt.delay_us
        vft_rt == eligible_time_rt + calculate_packet_service_time_us(len, rt)
        eligible_time_ls == base + ls.delay_us
        vft_ls == eligible_time_ls + calculate_packet_service_time_us(len, ls)
        use_rt == IF rt_valid /\ ls_valid THEN vft_rt <= vft_ls ELSE rt_valid
        any == rt_valid \/ ls_valid
        chosen_vft == IF ~ any THEN UINT64_MAX ELSE IF use_rt THEN vft_rt ELSE vft_ls
        chosen_eligible_time ==
            IF ~ any THEN 0 ELSE IF use_rt THEN eligible_time_rt ELSE eligible_time_ls
    IN  [chosen_eligible_time |-> chosen_eligible_time,
         chosen_vft |-> chosen_vft,
         service_time |-> IF chosen_vft # UINT64_MAX
                          THEN chosen_vft - chosen_eligible_time ELSE UINT64_MAX]

\* Mutant: the upper-limit candidate ignores the flow's UL timeline.
eligible_time_ul_candidate_from_base(base, vft_ul, ul) == base + ul.delay_us

eligible_time_ul_candidate(base, vft_ul, ul) == Max(base, vft_ul) + ul.delay_us

\* Mutant: a flow is put in the eligible set whatever its finish time.
schedulable_always(final_vft) == TRUE

schedulable(final_vft) == final_vft # UINT64_MAX

update_flow_schedule(fs, cvt, es, flow_id, is_newly_active) ==
    LET flow_state == fs[flow_id]
        packet_len_bytes == Head(flow_state.packet_queue).packet_length_bytes
        base == base_eligible_time(cvt, flow_state.virtual_finish_time, is_newly_active)
        self == ChooseCurve(base, packet_len_bytes, flow_state.real_time_sc,
                            flow_state.link_share_sc)
        has_ul == flow_state.upper_limit_sc.rate_bps > 0
        final_eligible_time_self ==
            IF has_ul
            THEN Max(self.chosen_eligible_time,
                     eligible_time_ul_candidate(base, flow_state.virtual_finish_time_ul,
                                                flow_state.upper_limit_sc))
            ELSE self.chosen_eligible_time
        final_vft_self ==
            IF has_ul /\ self.chosen_vft # UINT64_MAX
            THEN final_eligible_time_self + self.service_time
            ELSE self.chosen_vft
        has_parent == flow_state.parent_id # 0 /\ flow_state.parent_id \in DOMAIN fs
        parent_state == fs[flow_state.parent_id]
        parent_base == Max(cvt, parent_state.virtual_finish_time)
        parent == ChooseCurve(parent_base, packet_len_bytes, parent_state.real_time_sc,
                              parent_state.link_share_sc)
        final_eligible_time_parent ==
            IF parent_state.upper_limit_sc.rate_bps > 0
            THEN Max(parent.chosen_eligible_time,
                     eligible_time_ul_candidate(parent_base,
                                                parent_state.virtual_finish_time_ul,
                                                parent_state.upper_limit_sc))
            ELSE parent.chosen_eligible_time
        final_eligible_time ==
            IF has_parent THEN Max(final_eligible_time_self, final_eligible_time_parent)
            ELSE final_eligible_time_self
        final_vft ==
            IF has_parent
            THEN IF self.service_time # UINT64_MAX
                 THEN final_eligible_time + self.service_time ELSE UINT64_MAX
            ELSE final_vft_self
    IN  IF flow_state.packet_queue = <<>> \/ ~ schedulable(final_vft)
        THEN [flow_states |-> fs, eligible_set |-> es]
        ELSE [flow_states |->
                [fs EXCEPT ![flow_id].virtual_start_time = final_eligible_time,
                           ![flow_id].virtual_finish_time = final_vft,
                           ![flow_id].virtual_finish_time_ul =
                               IF has_ul
                               THEN final_eligible_time
                                    + calculate_packet_service_time_us(
                                          packet_len_bytes, flow_state.upper_limit_sc)
                               ELSE @],
              eligible_set |-> EligibleSetPush(es, EligibleFlow(final_vft, flow_id))]

\* The reschedule written out inside dequeue for a flow that still holds
\* packets: RT/LS choice and UL constraint from the new virtual time.
reschedule_after_dequeue(fs, cvt, es, flow_id) ==
    LET flow_state == fs[flow_id]
        next_packet_len_bytes == Head(flow_state.packet_queue).packet_length_bytes
        rt_ls == ChooseCurve(cvt, next_packet_len_bytes, flow_state.real_time_sc,
                             flow_state.link_share_sc)
        has_ul == flow_state.upper_limit_sc.rate_bps > 0
        final_eligible_time ==
            IF has_ul
            THEN Max(rt_ls.chosen_eligible_time,
                     eligible_time_ul_candidate(cvt, flow_state.virtual_finish_time_ul,
                                                flow_state.upper_limit_sc))
            ELSE rt_ls.chosen_eligible_time
        final_vft ==
            IF has_ul /\ rt_ls.chosen_vft # UINT64_MAX
            THEN final_eligible_time + rt_ls.service_time
            ELSE rt_ls.chosen_vft
    IN  IF ~ schedulable(final_vft)
        THEN [flow_states |-> fs, eligible_set |-> es]
        ELSE [flow_states |->
                [fs EXCEPT ![flow_id].virtual_start_time = final_eligible_time,
                           ![flow_id].virtual_finish_time = final_vft],
              eligible_set |-> EligibleSetPush(es, EligibleFlow(final_vft, flow_id))]

NoHistory ==
    [n |-> 0, start |-> 0, vft |-> 0, len |-> 0, rescheduled |-> FALSE,
     pstart |-> 0, pvft |-> 0, plen |-> 0, more |-> FALSE]

\* The constructor; an empty configuration leaves the scheduler unconfigured.
HfscConstruct(cfg) ==
    LET ids == {cfg[i].id : i \in 1..Len(cfg)}
        config_of(id) == cfg[CHOOSE i \in 1..Len(cfg) : cfg[i].id = id]
    IN  /\ flow_states = [id \in ids |-> HfscFlowState(config_of(id))]
        /\ current_virtual_time = 0
        /\ hfsc_total_packets = 0
        /\ eligible_set = <<>>
        /\ is_configured = (cfg # <<>>)
        /\ hfsc_calls = 0
        /\ hfsc_result = NoResult
        /\ hfsc_hist = [id \in ids |-> NoHistory]
        /\ hfsc_emitted = 0
        /\ hfsc_prev_flow = 0

Mbps == 1000000

\* Constructor arguments tried: an upper-limited flow beside a link-share
\* flow; a child under a slower parent; a flow with no rate at all beside a
\* served one; curves with delays; and no flow at all.
HfscConfigs ==
    {<<FlowConfig(1, 0, ServiceCurve(2 * Mbps, 0), EmptyCurve, ServiceCurve(Mbps, 0)),
       FlowConfig(2, 0, EmptyCurve, ServiceCurve(Mbps, 0), EmptyCurve)>>,
     <<FlowConfig(10, 0, ServiceCurve(Mbps, 0), EmptyCurve, EmptyCurve),
       FlowConfig(1, 10, ServiceCurve(2 * Mbps, 0), EmptyCurve, EmptyCurve)>>,
     <<FlowConfig(1, 0, ServiceCurve(Mbps, 0), EmptyCurve, EmptyCurve),
       FlowConfig(3, 0, EmptyCurve, EmptyCurve, EmptyCurve)>>,
     <<FlowConfig(1, 0, ServiceCurve(Mbps, 0), ServiceCurve(2 * Mbps, 5000), EmptyCurve),
       FlowConfig(2, 0, ServiceCurve(2 * Mbps, 1000), EmptyCurve, ServiceCurve(Mbps, 500))>>,
     <<>>}

HfscInit == \E cfg \in HfscConfigs : HfscConstruct(cfg)

HfscPacketLengths == {500, 1000}

\* Flow ids offered to enqueue: the ids used by the configurations and one
\* that none of them configures.
HfscOfferedFlowIds == {1, 2, 3, 10, 99}

HfscIsEmpty == IF ~ is_configured THEN TRUE ELSE hfsc_total_packets = 0

HfscEnqueue(packet) ==
    LET target_flow_id == packet.priority
    IN  /\ hfsc_calls' = hfsc_calls + 1
        /\ UNCHANGED <<current_virtual_time, is_configured, hfsc_hist, hfsc_emitted,
                       hfsc_prev_flow>>
        /\ IF ~ is_configured
           THEN /\ hfsc_result' = [op |-> "enqueue", status |-> "logic_error",
                                   packet |-> packet]
                /\ UNCHANGED <<flow_states, hfsc_total_packets, eligible_set>>
           ELSE IF target_flow_id \notin DOMAIN flow_states
           THEN /\ hfsc_result' = [op |-> "enqueue", status |-> "out_of_range",
                                   packet |-> packet]
                /\ UNCHANGED <<flow_states, hfsc_total_packets, eligible_set>>
           ELSE LET was_empty == flow_states[target_flow_id].packet_queue = <<>>
                    pushed == [flow_states EXCEPT
                                 ![target_flow_id].packet_queue = Append(@, packet)]
                    r == IF was_empty
                         THEN update_flow_schedule(pushed, current_virtual_time,
                                                   eligible_set, target_flow_id, TRUE)
                         ELSE [flow_states |-> pushed, eligible_set |-> eligible_set]
                IN  /\ flow_states' = r.flow_states
                    /\ eligible_set' = r.eligible_set
                    /\ hfsc_total_packets' = hfsc_total_packets + 1
                    /\ hfsc_result' = [op |-> "enqueue", status |-> "ok", packet |-> packet]

HfscThrow(kind) ==
    /\ hfsc_result' = [op |-> "dequeue", status |-> kind, packet |-> DefaultPacket]
    /\ UNCHANGED <<flow_states, current_virtual_time, hfsc_total_packets, hfsc_hist,
                   hfsc_emitted, hfsc_prev_flow>>

HfscDequeue ==
    /\ UNCHANGED <<hfsc_calls, is_configured>>
    /\ IF ~ is_configured
       THEN HfscThrow("logic_error") /\ UNCHANGED eligible_set
       ELSE IF HfscIsEmpty
       THEN HfscThrow("runtime_error") /\ UNCHANGED eligible_set
       ELSE IF eligible_set = <<>>
       THEN HfscThrow("logic_error") /\ UNCHANGED eligible_set
       ELSE LET next_to_service == Head(eligible_set)
                selected_flow_id == next_to_service.flow_id
                flow_state == flow_states[selected_flow_id]
            IN  IF flow_state.packet_queue = <<>>
                THEN HfscThrow("logic_error") /\ eligible_set' = Tail(eligible_set)
                ELSE LET packet_to_send == Head(flow_state.packet_queue)
                         cvt == next_to_service.virtual_finish_time
                         popped ==
                             [flow_states EXCEPT
                                ![selected_flow_id].packet_queue = Tail(@),
                                ![selected_flow_id].virtual_finish_time_ul =
                                    IF flow_state.upper_limit_sc.rate_bps > 0
                                    THEN flow_state.virtual_start_time
                                         + calculate_packet_service_time_us(
                                               packet_to_send.packet_length_bytes,
                                               flow_state.upper_limit_sc)
                                    ELSE @]
                         more == popped[selected_flow_id].packet_queue # <<>>
                         r == IF more
                              THEN reschedule_after_dequeue(popped, cvt, Tail(eligible_set),
                                                            selected_flow_id)
                              ELSE [flow_states |-> popped,
                                    eligible_set |-> Tail(eligible_set)]
                         h == hfsc_hist[selected_flow_id]
                     IN  /\ flow_states' = r.flow_states
                         /\ eligible_set' = r.eligible_set
                         /\ hfsc_total_packets' = hfsc_total_packets - 1
                         /\ current_virtual_time' = cvt
                         /\ hfsc_result' = [op |-> "dequeue", status |-> "ok",
                                            packet |-> packet_to_send]
                         /\ hfsc_hist' =
                              [hfsc_hist EXCEPT ![selected_flow_id] =
                                 [n |-> h.n + 1,
                                  start |-> flow_state.virtual_start_time,
                                  vft |-> cvt,
                                  len |-> packet_to_send.packet_length_bytes,
                                  rescheduled |-> h.more,
                                  pstart |-> h.start, pvft |-> h.vft, plen |-> h.len,
                                  more |-> more]]
                         /\ hfsc_emitted' = hfsc_emitted + 1
                         /\ hfsc_prev_flow' =
                              IF hfsc_emitted = 0 THEN 0 ELSE hfsc_result.packet.priority

HfscEnqueueCall ==
    /\ hfsc_calls < HfscMaxEnqueueCalls
    /\ \E f \in HfscOfferedFlowIds, len \in HfscPacketLengths :
         HfscEnqueue(PacketDescriptor(hfsc_calls + 1, len, f))

\* RTFlowExhaustsThenLinkShares: flow A (id 1) has RT 2 Mbps and LS 1 Mbps,
\* flow B (id 2) LS 1 Mbps only; HfscRtPacketsPerFlow packets of 1000 bytes go
\* to each, in any order, and then the scheduler is drained.
HfscRtPacketsPerFlow == 15

HfscRtPacketLength == 1000

HfscRtInit ==
    HfscConstruct(<<FlowConfig(1, 0, ServiceCurve(2 * Mbps, 0), ServiceCurve(Mbps, 0),
                               EmptyCurve),
                    FlowConfig(2, 0, EmptyCurve, ServiceCurve(Mbps, 0), EmptyCurve)>>)

HfscRtEnqueueCall ==
    \E f \in {1, 2} :
        /\ Len(flow_states[f].packet_queue) < HfscRtPacketsPerFlow
        /\ hfsc_emitted = 0
        /\ HfscEnqueue(PacketDescriptor(f, HfscRtPacketLength, f))

HfscRtDequeueCall ==
    /\ hfsc_calls = 2 * HfscRtPacketsPerFlow
    /\ HfscDequeue

-----------------------------------------------------------------------------
(* TrafficShaper and PacketPipeline, called from one thread. The scheduler  *)
(* behind the pipeline is the StrictPriorityScheduler of the tests.         *)

\* The descriptor handle_incoming_packet builds: the payload identifies the
\* packet.
PipelinePacket(len, payload) ==
    [flow_id |-> 0, packet_length_bytes |-> len, priority |-> 0,
     conformance |-> "GREEN", payload |-> payload]

ShapingPolicy(p_id, cir_bps, pir_bps, cbs, ebs, p_drop_on_red, prio_g, prio_y, prio_r, now) ==
    [id |-> p_id, drop_on_red |-> p_drop_on_red,
     target_priority_green |-> prio_g, target_priority_yellow |-> prio_y,
     target_priority_red |-> prio_r,
     cir_bucket |-> TokenBucket(cir_bps, cbs, now),
     pir_bucket |-> TokenBucket(pir_bps, ebs, now)]

\* The policies of the shaper and pipeline tests with bursts of a few bytes:
\* "Policy_GYR" (id 1: CIR 1 Mbps, CBS 1500, PIR 2 Mbps, EBS 3000, RED kept)
\* as CIR 4 Mbps, CBS 3, PIR 8 Mbps, EBS 6; "Policy_AllowR_LowPrio" (id 3:
\* PIR twice the CIR, EBS above CBS, RED kept) as CBS 2, EBS 3; "DropRed" or
\* "Policy_CirOnly" (id 4: PIR = CIR, EBS = CBS, RED dropped) as CBS 2.
PlPolicies ==
    {ShapingPolicy(1, 4 * 1000000, 8 * 1000000, 3, 6, FALSE, 2, 1, 0, 0),
     ShapingPolicy(3, 4 * 1000000, 8 * 1000000, 2, 3, FALSE, 1, 1, 0, 0),
     ShapingPolicy(4, 8 * 1000000, 8 * 1000000, 2, 2, TRUE, 1, 1, 1, 0)}

\* Default policies tried for the classifier: those above and an id the
\* policy tree does not hold.
PlDefaultPolicyIds == {1, 3, 4, 99}

PlTuples == {FiveTuple(1, 1, 100, 200, 6), FiveTuple(2, 2, 100, 200, 6)}

\* FlowClassifier::get_or_create_flow as one call (lock taken and released).
get_or_create_flow(five_tuple) ==
    IF five_tuple \in DOMAIN flow_key_to_flow_id_map
    THEN [id |-> flow_key_to_flow_id_map[five_tuple], created |-> FALSE,
          map |-> flow_key_to_flow_id_map, next |-> next_flow_id, table |-> flow_table]
    ELSE [id |-> next_flow_id, created |-> TRUE,
          map |-> MapPut(flow_key_to_flow_id_map, five_tuple, next_flow_id),
          next |-> NextFlowId(next_flow_id),
          table |-> IF next_flow_id \in DOMAIN flow_table THEN flow_table
                    ELSE MapPut(flow_table, next_flow_id,
                                FlowContext(next_flow_id, default_policy_id, 0,
                                            "TAIL_DROP"))]

\* A meter whose GREEN packets leave the PIR bucket alone.
apply_token_buckets_cir_first(packet, policy, now) ==
    LET cir == consume(policy.cir_bucket, now, packet.packet_length_bytes)
        pir == consume(policy.pir_bucket, now, packet.packet_length_bytes)
    IN  [conformance |-> IF cir.returned THEN "GREEN"
                         ELSE IF pir.returned THEN "YELLOW" ELSE "RED",
         policy |-> [policy EXCEPT !.cir_bucket = cir.bucket,
                                   !.pir_bucket = IF cir.returned THEN @
                                                  ELSE pir.bucket]]

\* TrafficShaper::apply_token_buckets: the colour and the policy after the
\* debits.
apply_token_buckets(packet, policy, now) ==
    LET cir == consume(policy.cir_bucket, now, packet.packet_length_bytes)
        pir == consume(policy.pir_bucket, now, packet.packet_length_bytes)
    IN  [conformance |-> IF cir.returned THEN "GREEN"
                         ELSE IF pir.returned THEN "YELLOW" ELSE "RED",
         policy |-> [policy EXCEPT !.cir_bucket = cir.bucket,
                                   !.pir_bucket = pir.bucket]]

\* A shaper that drops every RED packet.
drops_every_red(conformance_level, drop_on_red) == conformance_level = "RED"

\* conformance_level == RED && modifiable_policy.drop_on_red
drops(conformance_level, drop_on_red) == conformance_level = "RED" /\ drop_on_red

\* A shaper that lets every packet pass.
returns_enqueue_always(drop_this_packet) == TRUE

\* return !drop_this_packet
returns_enqueue(drop_this_packet) == ~ drop_this_packet

\* TrafficShaper::process_packet after classification gave flow_id: the
\* descriptor and the policy tree after the call, whether the packet is to
\* be dropped, and the value returned (or the exception thrown).
process_packet(packet, flow_id, table, tree, now) ==
    LET classified == [packet EXCEPT !.flow_id = flow_id]
    IN  IF flow_id \notin DOMAIN table
        THEN [thrown |-> "runtime_error", drop_this_packet |-> FALSE,
              returned |-> FALSE, packet |-> classified, policy_tree |-> tree]
        ELSE IF table[flow_id].policy_id \notin DOMAIN tree
        THEN [thrown |-> "none", drop_this_packet |-> TRUE,
              returned |-> returns_enqueue(TRUE),
              packet |-> [classified EXCEPT !.conformance = "RED"],
              policy_tree |-> tree]
        ELSE LET policy_id == table[flow_id].policy_id
                 a == apply_token_buckets(classified, tree[policy_id], now)
                 drop == drops(a.conformance, a.policy.drop_on_red)
                 target == IF a.conformance = "GREEN" THEN a.policy.target_priority_green
                           ELSE IF a.conformance = "YELLOW"
                           THEN a.policy.target_priority_yellow
                           ELSE a.policy.target_priority_red
             IN  [thrown |-> "none", drop_this_packet |-> drop,
                  returned |-> returns_enqueue(drop),
                  packet |-> [classified EXCEPT
                                !.conformance = a.conformance,
                                !.priority = IF drop THEN @ ELSE target],
                  policy_tree |-> [tree EXCEPT ![policy_id] = a.policy]]

PlConstruct ==
    /\ policy_tree = [id \in {p.id : p \in PlPolicies} |->
                        CHOOSE p \in PlPolicies : p.id = id]
    /\ pl_calls = 0
    /\ pl_result = NoResult
    /\ pl_stored = {}
    /\ pl_dropped = {}
    /\ pl_emitted = <<>>

\* The fixture: a classifier with some default policy, the policy tree and a
\* strict-priority scheduler.
PlInit ==
    /\ PlConstruct
    /\ \E default_pid \in PlDefaultPolicyIds : FcConstruct(default_pid)
    /\ SpInit

\* The part of handle_incoming_packet before the scheduler: classification c
\* of the five-tuple and the shaper's verdict sh on the packet.
PlShape(five_tuple, c, sh) ==
    /\ pl_calls' = pl_calls + 1
    /\ flow_key_to_flow_id_map' = c.map
    /\ next_flow_id' = c.next
    /\ flow_table' = c.table
    /\ fc_allocated' = IF c.created THEN Append(fc_allocated, c.id) ELSE fc_allocated
    /\ fc_returns' = Append(fc_returns, [thread |-> 0, five_tuple |-> five_tuple,
                                         id |-> c.id, created |-> c.created])
    /\ policy_tree' = sh.policy_tree
    /\ pl_dropped' = IF sh.drop_this_packet THEN pl_dropped \cup {sh.packet.payload}
                     ELSE pl_dropped
    /\ UNCHANGED <<default_policy_id, fc_mutex, fc_threads, pl_emitted>>

\* What handle_incoming_packet leaves behind: the scheduler was called iff
\* the shaper returned enqueue, and its outcome is the call's.
PlHandled(five_tuple, sh, enqueue_status) ==
    /\ pl_result' = [op |-> "handle_incoming_packet", at |-> tb_now,
                     five_tuple |-> five_tuple,
                     status |-> IF sh.thrown # "none" THEN sh.thrown
                                ELSE IF ~ sh.returned THEN "shaper_drop"
                                ELSE enqueue_status,
                     packet |-> sh.packet]
    /\ pl_stored' = IF sh.thrown = "none" /\ sh.returned /\ enqueue_status = "ok"
                    THEN pl_stored \cup {sh.packet.payload}
                    ELSE pl_stored

\* PacketPipeline::handle_incoming_packet over a StrictPriorityScheduler.
PlHandleIncomingPacket ==
    /\ pl_calls < PlMaxPackets
    /\ \E five_tuple \in PlTuples, len \in PacketLengths, sample_below \in BOOLEAN :
         LET c == get_or_create_flow(five_tuple)
             sh == process_packet(PipelinePacket(len, pl_calls + 1), c.id, c.table,
                                  policy_tree, tb_now)
         IN  /\ PlShape(five_tuple, c, sh)
             /\ IF sh.thrown = "none" /\ sh.returned
                THEN SpEnqueue(sh.packet, sample_below)
                ELSE UNCHANGED spVars
             /\ PlHandled(five_tuple, sh, sp_result'.status)

\* PacketPipeline::handle_incoming_packet over a DrrScheduler.
PlDrrHandleIncomingPacket ==
    /\ pl_calls < PlDrrMaxPackets
    /\ \E five_tuple \in PlTuples, len \in DrrPacketLengths, sample_below \in BOOLEAN :
         LET c == get_or_create_flow(five_tuple)
             sh == process_packet(PipelinePacket(len, pl_calls + 1), c.id, c.table,
                                  policy_tree, tb_now)
         IN  /\ PlShape(five_tuple, c, sh)
             /\ IF sh.thrown = "none" /\ sh.returned
                THEN DrrEnqueue(sh.packet, sample_below)
                ELSE UNCHANGED drrVars
             /\ PlHandled(five_tuple, sh, drr_result'.status)

\* The steady clock moves on between two pipeline calls.
PlTick ==
    /\ tb_now < PlMaxTime
    /\ tb_now' = tb_now + 1
    /\ UNCHANGED <<tb, tb_calls, tb_prev, tb_result, tb_unobserved>>

\* PacketPipeline::get_next_packet_to_transmit.
PlGetNextPacketToTransmit ==
    /\ IF ~ SpIsEmpty
       THEN /\ SpDequeue
            /\ pl_result' = [op |-> "get_next_packet_to_transmit",
                             status |-> sp_result'.status, packet |-> sp_result'.packet]
            /\ pl_emitted' = IF sp_result'.status = "ok"
                             THEN Append(pl_emitted, sp_result'.packet.payload)
                             ELSE pl_emitted
       ELSE /\ UNCHANGED spVars
            /\ pl_result' = [op |-> "get_next_packet_to_transmit",
                             status |-> "none", packet |-> DefaultPacket]
            /\ UNCHANGED pl_emitted
    /\ UNCHANGED <<fcVars, policy_tree, pl_calls, pl_stored, pl_dropped>>

\* PacketPipeline::get_next_packet_to_transmit over a DrrScheduler.
PlDrrGetNextPacketToTransmit ==
    /\ IF ~ DrrIsEmpty
       THEN /\ DrrDequeue
            /\ pl_result' = [op |-> "get_next_packet_to_transmit",
                             status |-> drr_result'.status, packet |-> drr_result'.packet]
            /\ pl_emitted' = IF drr_result'.status = "ok"
                             THEN Append(pl_emitted, drr_result'.packet.payload)
                             ELSE pl_emitted
       ELSE /\ UNCHANGED drrVars
            /\ pl_result' = [op |-> "get_next_packet_to_transmit",
                             status |-> "none", packet |-> DefaultPacket]
            /\ UNCHANGED pl_emitted
    /\ UNCHANGED <<fcVars, policy_tree, pl_calls, pl_stored, pl_dropped>>

-----------------------------------------------------------------------------
(* PolicyTree: boost::multi_index_container<ShapingPolicy> with the unique *)
(* by_id index and the non-unique by_parent_id, by_priority_level and      *)
(* by_name indices.                                                        *)

\* policy::NO_PARENT_POLICY_ID
NO_PARENT_POLICY_ID == 0

PtMaxCalls == 4

\* Ids given to policies, and the values given to parent_id (an id or the
\* sentinel).
PtPolicyIds == 1..3

PtParentIds == {NO_PARENT_POLICY_ID} \cup PtPolicyIds

PtPriorityLevels == {0, 1}

\* createTestPolicy: the indexed members of the element.
createTestPolicy(p_id, p_parent_id, p_priority) ==
    [id |-> p_id, parent_id |-> p_parent_id, priority_level |-> p_priority]

\* f without key k.
MapErase(f, k) == [x \in DOMAIN f \ {k} |-> f[x]]

PtConstruct ==
    /\ pt_tree = <<>>
    /\ pt_calls = 0
    /\ pt_result = [op |-> "none", id |-> 0, ok |-> FALSE]

PtInit == PtConstruct

\* tree.insert(policy): refused (second = false) when the unique by_id index
\* already holds the id, stored otherwise.
PtInsert ==
    /\ pt_calls < PtMaxCalls
    /\ \E p_id \in PtPolicyIds, parent \in PtParentIds, prio \in PtPriorityLevels :
         LET policy == createTestPolicy(p_id, parent, prio)
             second == p_id \notin DOMAIN pt_tree
         IN  /\ pt_tree' = IF second THEN MapPut(pt_tree, p_id, policy) ELSE pt_tree
             /\ pt_result' = [op |-> "insert", id |-> p_id, ok |-> second]
    /\ pt_calls' = pt_calls + 1

\* id_index.erase(key): removes the element with that id, returns the count.
PtErase ==
    /\ pt_calls < PtMaxCalls
    /\ \E p_id \in PtPolicyIds :
         /\ pt_tree' = IF p_id \in DOMAIN pt_tree THEN MapErase(pt_tree, p_id)
                       ELSE pt_tree
         /\ pt_result' = [op |-> "erase", id |-> p_id, ok |-> p_id \in DOMAIN pt_tree]
    /\ pt_calls' = pt_calls + 1

\* tree.modify(id_index.find(id), mutator) with a mutator that assigns
\* parent_id and priority_level: the element stays in the container and is
\* re-indexed (no unique key changes, so modify returns true).
PtModify ==
    /\ pt_calls < PtMaxCalls
    /\ \E p_id \in DOMAIN pt_tree, parent \in PtParentIds, prio \in PtPriorityLevels :
         /\ pt_tree' = [pt_tree EXCEPT ![p_id] =
                          [@ EXCEPT !.parent_id = parent, !.priority_level = prio]]
         /\ pt_result' = [op |-> "modify", id |-> p_id, ok |-> TRUE]
    /\ pt_calls' = pt_calls + 1

-----------------------------------------------------------------------------
(* A thread in TrafficShaper::process_packet.                              *)

(* process_packet calls get_or_create_flow, which takes and releases the    *)
(* classifier's mutex, and then reads flow_table_ itself.                  *)

\* The thread that runs process_packet; the classifier's other threads call
\* get_or_create_flow directly.
ShThread == 1

ShOtherThreads == FcThreads \ {ShThread}

ShIdle == [pc |-> "idle"]

ShConstruct == shaper_thread = ShIdle

\* process_packet is entered: get_or_create_flow takes the lock.
ShEnter ==
    /\ shaper_thread.pc = "idle"
    /\ FcLock(ShThread)
    /\ shaper_thread' = [pc |-> "get_or_create_flow"]
    /\ UNCHANGED policy_tree

\* The body of get_or_create_flow on the shaper's thread.
ShClassify ==
    /\ shaper_thread.pc = "get_or_create_flow"
    /\ FcFind(ShThread) \/ FcAllocate(ShThread) \/ FcEmplace(ShThread)
    /\ UNCHANGED <<shaper_thread, policy_tree>>

\* get_or_create_flow returns the flow id and its lock_guard lets go of the
\* mutex; the shaper stands before flow_table_.find(flow_id).
ShClassified ==
    /\ shaper_thread.pc = "get_or_create_flow"
    /\ FcReturn(ShThread)
    /\ shaper_thread' = [pc |-> "find", flow_id |-> fc_threads[ShThread].id]
    /\ UNCHANGED policy_tree

\* An insertion into flow_table_ by another thread is under way.
ShInsertionUnderWay ==
    \E t \in ShOtherThreads :
        fc_threads[t].pc = "emplace" /\ fc_threads[t].id \notin DOMAIN flow_table

\* flow_table_.find(flow_id), with no lock held, and the rest of
\* process_packet. A find that runs while another thread inserts is a data
\* race: it sees the table as it is or misses the entry.
ShFind ==
    /\ shaper_thread.pc = "find"
    /\ \E len \in PacketLengths,
          seen \in IF ShInsertionUnderWay THEN {flow_table, [k \in {} |-> 0]}
                   ELSE {flow_table} :
         LET sh == process_packet(PipelinePacket(len, 0), shaper_thread.flow_id, seen,
                                  policy_tree, tb_now)
         IN  /\ policy_tree' = sh.policy_tree
             /\ shaper_thread' = [pc |-> "idle", flow_id |-> shaper_thread.flow_id,
                                  thrown |-> sh.thrown]
    /\ UNCHANGED fcVars

\* get_or_create_flow called directly on another thread.
ShOtherCall ==
    /\ \E t \in ShOtherThreads :
         FcLock(t) \/ FcFind(t) \/ FcAllocate(t) \/ FcEmplace(t) \/ FcReturn(t)
    /\ UNCHANGED <<shaper_thread, policy_tree>>

-----------------------------------------------------------------------------
(* Specifications: one scheduler object runs, the others stay as built.    *)

SpParked ==
    /\ priority_queues = <<RedAqmQueue(PermissiveAqm)>>
    /\ sp_total_packets = 0
    /\ sp_calls = 0
    /\ sp_result = NoResult

DrrParked == DrrConstruct(<<DrrQueueConfig(0, 1, PermissiveAqm)>>)

WrrParked == WrrConstruct(<<WrrQueueConfig(0, 1)>>)

HfscParked == HfscConstruct(<<>>)

AqmParked == AqmConstruct(PermissiveAqm)

FcParked == FcConstruct(DEFAULT_POLICY_ID)

TbParked == TbConstruct(0, 0)

PlParked == PlConstruct

PtParked == PtConstruct

ShParked == ShConstruct

WrrCycleParked == WrrCycleConstruct(<<WrrQueueConfig(0, 1)>>)

spOthers == <<drrVars, wrrVars, hfscVars, aqmVars, fcVars, tbVars, plVars, ptVars, shVars,
    wrrCycleVars>>

SpSpecInit == SpInit /\ DrrParked /\ WrrParked /\ HfscParked /\ AqmParked /\ FcParked /\ TbParked /\ PlParked
        /\ PtParked /\ ShParked /\ WrrCycleParked

SpEnqueueStep == SpEnqueueCall /\ UNCHANGED spOthers

SpDequeueStep == SpDequeue /\ UNCHANGED spOthers

SpSpecNext == SpEnqueueStep \/ SpDequeueStep

SpecSp == SpSpecInit /\ [][SpSpecNext]_vars

drrOthers == <<spVars, wrrVars, hfscVars, aqmVars, fcVars, tbVars, plVars, ptVars, shVars,
    wrrCycleVars>>

DrrSpecInit == DrrInit /\ SpParked /\ WrrParked /\ HfscParked /\ AqmParked /\ FcParked /\ TbParked /\ PlParked
        /\ PtParked /\ ShParked /\ WrrCycleParked

DrrEnqueueStep == DrrEnqueueCall(DrrMaxEnqueueCalls) /\ UNCHANGED drrOthers

DrrDequeueStep == DrrDequeue /\ UNCHANGED drrOthers

DrrSpecNext == DrrEnqueueStep \/ DrrDequeueStep

SpecDrr == DrrSpecInit /\ [][DrrSpecNext]_vars

DrrFairSpecInit == DrrFairInit /\ SpParked /\ WrrParked /\ HfscParked /\ AqmParked /\ FcParked /\ TbParked /\ PlParked
        /\ PtParked /\ ShParked /\ WrrCycleParked

DrrFairEnqueueStep == DrrFairEnqueueCall /\ UNCHANGED drrOthers

DrrFairSpecNext == DrrFairEnqueueStep \/ DrrDequeueStep

SpecDrrFair == DrrFairSpecInit /\ [][DrrFairSpecNext]_vars

DrrLiveSpecInit == DrrLiveInit /\ SpParked /\ WrrParked /\ HfscParked /\ AqmParked /\ FcParked /\ TbParked /\ PlParked
        /\ PtParked /\ ShParked /\ WrrCycleParked

DrrLiveEnqueueStep == DrrEnqueueCall(DrrLiveMaxEnqueueCalls) /\ UNCHANGED drrOthers

DrrLiveSpecNext == DrrLiveEnqueueStep \/ DrrDequeueStep

\* The caller keeps calling dequeue.
SpecDrrLive == DrrLiveSpecInit /\ [][DrrLiveSpecNext]_vars /\ WF_vars(DrrDequeueStep)

wrrOthers == <<spVars, drrVars, hfscVars, aqmVars, fcVars, tbVars, plVars, ptVars, shVars,
    wrrCycleVars>>

WrrSpecInit == WrrInit /\ SpParked /\ DrrParked /\ HfscParked /\ AqmParked /\ FcParked /\ TbParked /\ PlParked
        /\ PtParked /\ ShParked /\ WrrCycleParked

WrrEnqueueStep == WrrEnqueueCall(WrrMaxEnqueueCalls) /\ UNCHANGED wrrOthers

WrrDequeueStep == WrrDequeue /\ UNCHANGED wrrOthers

WrrSpecNext == WrrEnqueueStep \/ WrrDequeueStep

SpecWrr == WrrSpecInit /\ [][WrrSpecNext]_vars

hfscOthers == <<spVars, drrVars, wrrVars, aqmVars, fcVars, tbVars, plVars, ptVars, shVars,
    wrrCycleVars>>

HfscSpecInit == HfscInit /\ SpParked /\ DrrParked /\ WrrParked /\ AqmParked /\ FcParked /\ TbParked /\ PlParked
        /\ PtParked /\ ShParked /\ WrrCycleParked

HfscEnqueueStep == HfscEnqueueCall /\ UNCHANGED hfscOthers

HfscDequeueStep == HfscDequeue /\ UNCHANGED hfscOthers

HfscSpecNext == HfscEnqueueStep \/ HfscDequeueStep

SpecHfsc == HfscSpecInit /\ [][HfscSpecNext]_vars

HfscRtSpecInit == HfscRtInit /\ SpParked /\ DrrParked /\ WrrParked /\ AqmParked /\ FcParked /\ TbParked /\ PlParked
        /\ PtParked /\ ShParked /\ WrrCycleParked

HfscRtEnqueueStep == HfscRtEnqueueCall /\ UNCHANGED hfscOthers

HfscRtDequeueStep == HfscRtDequeueCall /\ UNCHANGED hfscOthers

HfscRtSpecNext == HfscRtEnqueueStep \/ HfscRtDequeueStep

SpecHfscRt == HfscRtSpecInit /\ [][HfscRtSpecNext]_vars

aqmOthers == <<spVars, drrVars, wrrVars, hfscVars, fcVars, tbVars, plVars, ptVars, shVars,
    wrrCycleVars>>

AqmSpecInit == AqmInit /\ SpParked /\ DrrParked /\ WrrParked /\ HfscParked /\ FcParked /\ TbParked /\ PlParked
        /\ PtParked /\ ShParked /\ WrrCycleParked

AqmEnqueueStep == AqmEnqueueCall /\ UNCHANGED aqmOthers

AqmDequeueStep == AqmDequeueCall /\ UNCHANGED aqmOthers

AqmSpecNext == AqmEnqueueStep \/ AqmDequeueStep

SpecAqm == AqmSpecInit /\ [][AqmSpecNext]_vars

\* The RedAqmParameters constructor on its own.
RedAqmParametersSpecInit ==
    /\ RedAqmParametersInit
    /\ SpParked /\ DrrParked /\ WrrParked /\ HfscParked /\ FcParked /\ TbParked /\ PlParked
        /\ PtParked /\ ShParked /\ WrrCycleParked

RedAqmParametersConstructStep == RedAqmParametersConstruct /\ UNCHANGED aqmOthers

RedAqmParametersSpecNext == RedAqmParametersConstructStep

SpecRedAqmParameters == RedAqmParametersSpecInit /\ [][RedAqmParametersSpecNext]_vars

fcOthers == <<spVars, drrVars, wrrVars, hfscVars, aqmVars, tbVars, plVars, ptVars, shVars,
    wrrCycleVars>>

FcSpecInit == FcInit /\ SpParked /\ DrrParked /\ WrrParked /\ HfscParked /\ AqmParked /\ TbParked /\ PlParked
        /\ PtParked /\ ShParked /\ WrrCycleParked

FcLockStep == (\E t \in FcThreads : FcLock(t)) /\ UNCHANGED fcOthers

FcFindStep == (\E t \in FcThreads : FcFind(t)) /\ UNCHANGED fcOthers

FcAllocateStep == (\E t \in FcThreads : FcAllocate(t)) /\ UNCHANGED fcOthers

FcEmplaceStep == (\E t \in FcThreads : FcEmplace(t)) /\ UNCHANGED fcOthers

FcReturnStep == (\E t \in FcThreads : FcReturn(t)) /\ UNCHANGED fcOthers

FcSpecNext ==
    FcLockStep \/ FcFindStep \/ FcAllocateStep \/ FcEmplaceStep \/ FcReturnStep

SpecFc == FcSpecInit /\ [][FcSpecNext]_vars

tbOthers == <<spVars, drrVars, wrrVars, hfscVars, aqmVars, fcVars, plVars, ptVars, shVars,
    wrrCycleVars>>

TbSpecInit ==
    TbInit /\ SpParked /\ DrrParked /\ WrrParked /\ HfscParked /\ AqmParked /\ FcParked
        /\ PlParked
        /\ PtParked /\ ShParked /\ WrrCycleParked

TbTickStep == TbTick /\ UNCHANGED tbOthers

TbConsumeStep == TbConsume /\ UNCHANGED tbOthers

TbAvailableTokensStep == TbAvailableTokens /\ UNCHANGED tbOthers

TbIsConformingStep == TbIsConforming /\ UNCHANGED tbOthers

TbSetRateStep == TbSetRate /\ UNCHANGED tbOthers

TbSetCapacityStep == TbSetCapacity /\ UNCHANGED tbOthers

TbSpecNext ==
    \/ TbTickStep \/ TbConsumeStep \/ TbAvailableTokensStep \/ TbIsConformingStep
    \/ TbSetRateStep \/ TbSetCapacityStep

SpecTb == TbSpecInit /\ [][TbSpecNext]_vars

\* The pipeline runs the classifier, the scheduler and the clock with it.
plOthers == <<drrVars, wrrVars, hfscVars, aqmVars, ptVars, shVars,
    wrrCycleVars>>

PlSpecInit == PlInit /\ DrrParked /\ WrrParked /\ HfscParked /\ AqmParked /\ TbParked
        /\ PtParked /\ ShParked /\ WrrCycleParked

PlHandleIncomingPacketStep ==
    PlHandleIncomingPacket /\ UNCHANGED <<plOthers, tbVars>>

PlGetNextPacketToTransmitStep ==
    PlGetNextPacketToTransmit /\ UNCHANGED <<plOthers, tbVars>>

PlTickStep == PlTick /\ UNCHANGED <<plOthers, spVars, fcVars, plVars>>

PlSpecNext ==
    PlHandleIncomingPacketStep \/ PlGetNextPacketToTransmitStep \/ PlTickStep

SpecPl == PlSpecInit /\ [][PlSpecNext]_vars

\* The pipeline with a DrrScheduler behind it.
plDrrOthers == <<spVars, wrrVars, hfscVars, aqmVars, tbVars, ptVars, shVars,
    wrrCycleVars>>

PlDrrSpecInit ==
    /\ PlConstruct
    /\ \E default_pid \in PlDefaultPolicyIds : FcConstruct(default_pid)
    /\ DrrInit
    /\ SpParked /\ WrrParked /\ HfscParked /\ AqmParked /\ TbParked
        /\ PtParked /\ ShParked /\ WrrCycleParked

PlDrrHandleIncomingPacketStep == PlDrrHandleIncomingPacket /\ UNCHANGED plDrrOthers

PlDrrGetNextPacketToTransmitStep == PlDrrGetNextPacketToTransmit /\ UNCHANGED plDrrOthers

PlDrrSpecNext == PlDrrHandleIncomingPacketStep \/ PlDrrGetNextPacketToTransmitStep

SpecPlDrr == PlDrrSpecInit /\ [][PlDrrSpecNext]_vars

\* The WrrScheduler with the observer of its replenishment cycles.
wrrCycleOthers == <<spVars, drrVars, hfscVars, aqmVars, fcVars, tbVars, plVars, ptVars,
    shVars>>

WrrCycleInit == \E cfg \in WrrCycleConfigs : WrrConstruct(cfg) /\ WrrCycleConstruct(cfg)

WrrCycleSpecInit ==
    /\ WrrCycleInit
    /\ SpParked /\ DrrParked /\ HfscParked /\ AqmParked /\ FcParked /\ TbParked
    /\ PlParked /\ PtParked /\ ShParked

WrrCycleEnqueueStep ==
    WrrEnqueueCall(WrrCycleMaxEnqueueCalls) /\ UNCHANGED <<wrrCycleOthers, wrr_cycle>>

WrrCycleDequeueStep == WrrCycleDequeue /\ UNCHANGED wrrCycleOthers

WrrCycleSpecNext == WrrCycleEnqueueStep \/ WrrCycleDequeueStep

SpecWrrCycle == WrrCycleSpecInit /\ [][WrrCycleSpecNext]_vars

\* process_packet on one thread beside get_or_create_flow on another: the
\* classifier, the flow table and the policy tree of the pipeline fixture.
shOthers == <<spVars, drrVars, wrrVars, hfscVars, aqmVars, tbVars, ptVars, wrrCycleVars,
    pl_calls, pl_result, pl_stored, pl_dropped, pl_emitted>>

ShSpecInit ==
    /\ PlConstruct
    /\ \E default_pid \in PlDefaultPolicyIds : FcConstruct(default_pid)
    /\ ShConstruct
    /\ SpParked /\ DrrParked /\ WrrParked /\ HfscParked /\ AqmParked /\ TbParked
    /\ PtParked /\ WrrCycleParked

ShEnterStep == ShEnter /\ UNCHANGED shOthers

ShClassifyStep == ShClassify /\ UNCHANGED shOthers

ShClassifiedStep == ShClassified /\ UNCHANGED shOthers

ShFindStep == ShFind /\ UNCHANGED shOthers

ShOtherCallStep == ShOtherCall /\ UNCHANGED shOthers

ShSpecNext ==
    ShEnterStep \/ ShClassifyStep \/ ShClassifiedStep \/ ShFindStep \/ ShOtherCallStep

SpecShaperThreads == ShSpecInit /\ [][ShSpecNext]_vars

\* The PolicyTree container on its own.
ptOthers == <<spVars, drrVars, wrrVars, hfscVars, aqmVars, fcVars, tbVars, plVars, shVars,
    wrrCycleVars>>

PtSpecInit ==
    /\ PtInit
    /\ SpParked /\ DrrParked /\ WrrParked /\ HfscParked /\ AqmParked /\ FcParked
    /\ TbParked /\ PlParked /\ ShParked /\ WrrCycleParked

PtInsertStep == PtInsert /\ UNCHANGED ptOthers

PtEraseStep == PtErase /\ UNCHANGED ptOthers

PtModifyStep == PtModify /\ UNCHANGED ptOthers

PtSpecNext == PtInsertStep \/ PtEraseStep \/ PtModifyStep

SpecPolicyTree == PtSpecInit /\ [][PtSpecNext]_vars

\* One scheduler of any of the four kinds: the constructor picks the kind, and
\* only the constructed scheduler is ever called (the three others stay as
\* they were built).
SchedulersSpecInit == SpSpecInit \/ DrrSpecInit \/ WrrSpecInit \/ HfscSpecInit

OnlySpEnqueueStep == DrrParked /\ WrrParked /\ HfscParked /\ SpEnqueueStep

OnlySpDequeueStep == DrrParked /\ WrrParked /\ HfscParked /\ SpDequeueStep

OnlyDrrEnqueueStep == SpParked /\ WrrParked /\ HfscParked /\ DrrEnqueueStep

OnlyDrrDequeueStep == SpParked /\ WrrParked /\ HfscParked /\ DrrDequeueStep

WrrFifoEnqueueStep == WrrEnqueueCall(WrrFifoMaxEnqueueCalls) /\ UNCHANGED wrrOthers

OnlyWrrEnqueueStep == SpParked /\ DrrParked /\ HfscParked /\ WrrFifoEnqueueStep

OnlyWrrDequeueStep == SpParked /\ DrrParked /\ HfscParked /\ WrrDequeueStep

OnlyHfscEnqueueStep == SpParked /\ DrrParked /\ WrrParked /\ HfscEnqueueStep

OnlyHfscDequeueStep == SpParked /\ DrrParked /\ WrrParked /\ HfscDequeueStep

SchedulersSpecNext ==
    \/ OnlySpEnqueueStep \/ OnlySpDequeueStep
    \/ OnlyDrrEnqueueStep \/ OnlyDrrDequeueStep
    \/ OnlyWrrEnqueueStep \/ OnlyWrrDequeueStep
    \/ OnlyHfscEnqueueStep \/ OnlyHfscDequeueStep

SpecSchedulers == SchedulersSpecInit /\ [][SchedulersSpecNext]_vars

-----------------------------------------------------------------------------
\* C1: whenever StrictPriorityScheduler::dequeue returns a packet, every
\* priority level numerically above that packet's level holds no packet (the
\* levels above are untouched by the call, so they were empty when it chose).
C1_StrictPriorityOrder ==
    (sp_result.op = "dequeue" /\ sp_result.status = "ok") =>
        \A k \in 0..(num_levels - 1) :
            k > sp_result.packet.priority => AqmIsEmpty(priority_queues[k + 1])

\* A packet of level 1 is emitted while level 0 is still backlogged.
C1_Witness ==
    /\ sp_result.op = "dequeue" /\ sp_result.status = "ok"
    /\ sp_result.packet.priority = 1
    /\ ~ AqmIsEmpty(priority_queues[1])

\* C2: DrrScheduler::dequeue raises an error only when the scheduler holds no
\* packet (an error leaves every packet queued, so total_packets_ after the
\* failed call is what it was before).
C2_DrrFailsOnlyWhenEmpty ==
    (drr_result.op = "dequeue" /\ drr_result.status # "ok") => drr_total_packets = 0

\* The last call was a dequeue that returned a packet of queue i.
DrrEmittedFrom(i) ==
    /\ drr_result.op = "dequeue" /\ drr_result.status = "ok"
    /\ drr_result.packet.priority = drr_queues[i].external_id

\* C3: DRR progress. While dequeue keeps being called, a queue that holds a
\* packet eventually has a packet returned from it (its head, the queue being
\* FIFO), whatever the head's length and the queue's quantum: the deficit a
\* visit adds stays with the queue until the packet is sent.
C3_DrrProgress ==
    \A i \in 1..2 :
        (i <= Len(drr_queues) /\ ~ AqmIsEmpty(drr_queues[i].packet_queue))
            ~> (i <= Len(drr_queues) /\ DrrEmittedFrom(i))

\* A packet three quanta long has been emitted: no single dequeue call visits
\* its queue often enough, so deficit carried over from a failed call paid for it.
C3_Witness ==
    /\ drr_result.op = "dequeue" /\ drr_result.status = "ok"
    /\ drr_result.packet.packet_length_bytes = 3
    /\ \E i \in 1..Len(drr_queues) :
         /\ drr_queues[i].external_id = drr_result.packet.priority
         /\ drr_queues[i].quantum_bytes = 1

\* The longest packet of the fairness run.
DrrFairMaxLen == CHOOSE m \in DrrFairPacketLengths : \A x \in DrrFairPacketLengths : x <= m

\* C5: DRR byte fairness. Over a run of consecutive dequeues during which
\* every queue stays non-empty, the bytes b_i, b_j served from queues i and j
\* stand in ratio q_i : q_j up to one maximum-size packet on either side:
\* |b_i * q_j - b_j * q_i| <= MaxLen * (q_i + q_j).
C5_DrrByteFairness ==
    \A i, j \in 1..Len(drr_queues) :
        LET d == drr_run_bytes[i] * drr_queues[j].quantum_bytes
                 - drr_run_bytes[j] * drr_queues[i].quantum_bytes
        IN  (IF d < 0 THEN -d ELSE d)
              <= DrrFairMaxLen * (drr_queues[i].quantum_bytes + drr_queues[j].quantum_bytes)

\* C4: WRR packet ratio. Over a run of consecutive dequeues during which
\* every queue stays non-empty, whatever preceded the run, the packets n_i, n_j
\* served from queues i and j stand in ratio w_i : w_j up to one packet on
\* either side: |n_i * w_j - n_j * w_i| <= w_i + w_j.
C4_WrrPacketRatio ==
    \A i, j \in 1..Len(wrr_queues) :
        LET d == wrr_run_packets[i] * wrr_queues[j].weight
                 - wrr_run_packets[j] * wrr_queues[i].weight
        IN  (IF d < 0 THEN -d ELSE d) <= wrr_queues[i].weight + wrr_queues[j].weight

\* C6: every step of the HFSC scheduler leaves current_virtual_time where it
\* was or moves it forward, so the virtual finish times of successively
\* emitted packets never decrease.
C6_VirtualTimeMonotone == [][current_virtual_time' >= current_virtual_time]_vars

\* A flow that became active after virtual time had moved on has just emitted.
C6_Witness ==
    /\ hfsc_result.op = "dequeue" /\ hfsc_result.status = "ok"
    /\ hfsc_emitted >= 2
    /\ hfsc_prev_flow # hfsc_result.packet.priority
    /\ LET h == hfsc_hist[hfsc_result.packet.priority]
       IN  ~ h.rescheduled /\ h.start > 0

\* About five packets make up the real-time phase of flow A.
HfscRtPhasePackets == 5

\* C7: real-time domination. Once the real-time phase is over (here: from
\* two packets past the fifth on), as long as both flows stay backlogged, A and
\* B are served alternately: a packet never follows one of the same flow.
C7_AlternationAfterRtPhase ==
    (/\ hfsc_result.op = "dequeue" /\ hfsc_result.status = "ok"
     /\ hfsc_emitted > HfscRtPhasePackets + 2
     /\ \A f \in DOMAIN flow_states : flow_states[f].packet_queue # <<>>)
        => hfsc_result.packet.priority # hfsc_prev_flow

\* The curve a class is shaped by: its RT curve, or its LS curve without one.
RateCurve(flow_state) ==
    IF flow_state.real_time_sc.rate_bps > 0 THEN flow_state.real_time_sc
    ELSE flow_state.link_share_sc

\* C8: a leaf inherits its parent's shaping. For a leaf whose rate exceeds
\* its parent's, two packets emitted one after the other out of one backlog
\* have virtual finish times at least the service time of the later packet
\* at the parent's rate apart.
C8_ChildSpacedAtParentRate ==
    \A f \in DOMAIN flow_states :
        LET flow_state == flow_states[f]
            h == hfsc_hist[f]
        IN  (/\ flow_state.parent_id \in DOMAIN flow_states
             /\ RateCurve(flow_states[flow_state.parent_id]).rate_bps > 0
             /\ RateCurve(flow_state).rate_bps
                  > RateCurve(flow_states[flow_state.parent_id]).rate_bps
             /\ h.n >= 2 /\ h.rescheduled)
            => h.vft - h.pvft
                 >= calculate_packet_service_time_us(
                        h.len, RateCurve(flow_states[flow_state.parent_id]))

\* C9: a flow with an upper-limit curve is never served faster than it. Each
\* emitted packet's virtual start time is at least its predecessor's start
\* plus the predecessor's service time at the UL rate; and a backlogged flow
\* with RT 2 Mbps, UL 1 Mbps (no delays) and 1000-byte packets is emitted
\* with virtual finish times 8000 microseconds apart.
C9_UpperLimitRespected ==
    \A f \in DOMAIN flow_states :
        LET flow_state == flow_states[f]
            h == hfsc_hist[f]
        IN  /\ (flow_state.upper_limit_sc.rate_bps > 0 /\ h.n >= 2)
                 => h.start >= h.pstart
                      + calculate_packet_service_time_us(h.plen, flow_state.upper_limit_sc)
            /\ (/\ flow_state.real_time_sc = ServiceCurve(2 * Mbps, 0)
                /\ flow_state.link_share_sc = EmptyCurve
                /\ flow_state.upper_limit_sc = ServiceCurve(Mbps, 0)
                /\ h.n >= 2 /\ h.rescheduled
                /\ h.len = 1000 /\ h.plen = 1000)
                 => h.vft - h.pvft = 8000

\* The capped flow has emitted two 1000-byte packets out of one backlog.
C9_Witness ==
    \E f \in DOMAIN flow_states :
        /\ flow_states[f].real_time_sc = ServiceCurve(2 * Mbps, 0)
        /\ flow_states[f].upper_limit_sc = ServiceCurve(Mbps, 0)
        /\ hfsc_hist[f].n >= 2 /\ hfsc_hist[f].rescheduled
        /\ hfsc_hist[f].len = 1000 /\ hfsc_hist[f].plen = 1000
        /\ hfsc_hist[f].vft - hfsc_hist[f].pvft = 8000

\* Packets are queued and no flow that holds one has an RT or LS rate.
HfscOnlyRatelessBacklog ==
    /\ is_configured
    /\ hfsc_total_packets > 0
    /\ \A f \in DOMAIN flow_states :
         flow_states[f].packet_queue # <<>>
           => /\ flow_states[f].real_time_sc.rate_bps = 0
              /\ flow_states[f].link_share_sc.rate_bps = 0

\* C10: a dequeue call made while packets are queued and the eligible set is
\* empty - as it is when no backlogged flow has an RT or LS rate - reports a
\* logic error and returns nothing: every packet stays queued and is_empty
\* stays false.
C10_EmptyEligibleSetIsError ==
    [][(/\ hfsc_calls' = hfsc_calls
        /\ hfsc_result'.op = "dequeue"
        /\ \/ is_configured /\ hfsc_total_packets > 0 /\ eligible_set = <<>>
           \/ HfscOnlyRatelessBacklog)
       => /\ hfsc_result'.status = "logic_error"
          /\ flow_states' = flow_states
          /\ hfsc_total_packets' = hfsc_total_packets
          /\ ~ HfscIsEmpty']_vars

\* dequeue has just failed on a scheduler that holds packets of a rateless flow.
C10_Witness ==
    /\ hfsc_result.op = "dequeue" /\ hfsc_result.status = "logic_error"
    /\ HfscOnlyRatelessBacklog
    /\ eligible_set = <<>>

\* Every packet of the buffer was accepted after the packet with this tag.
\* (Every enqueue call of a run carries the number of the call as its tag, so
\* a larger tag is a later acceptance.)
AllAcceptedAfter(buffer, tag_of(_), tag) ==
    \A i \in 1..Len(buffer) : tag_of(buffer[i]) > tag

\* The buffer holds its packets oldest first.
InAcceptanceOrder(buffer, tag_of(_)) ==
    \A i, j \in 1..Len(buffer) : i < j => tag_of(buffer[i]) < tag_of(buffer[j])

FlowIdTag(p) == p.flow_id

\* C11: within one queue (a strict-priority level, a DRR queue, a WRR queue or
\* an HFSC flow) packets leave in the order they were accepted, whatever
\* enqueue and dequeue calls on this and on other queues are interleaved: the
\* queue holds its packets oldest first, and a packet a dequeue returns is
\* older than every packet its queue still holds.
C11_FifoPerQueue ==
    /\ \A k \in 1..Len(priority_queues) :
          InAcceptanceOrder(priority_queues[k].packet_buffer, FlowIdTag)
    /\ (sp_result.op = "dequeue" /\ sp_result.status = "ok") =>
          AllAcceptedAfter(priority_queues[sp_result.packet.priority + 1].packet_buffer,
                           FlowIdTag, sp_result.packet.flow_id)
    /\ \A k \in 1..Len(drr_queues) :
          InAcceptanceOrder(drr_queues[k].packet_queue.packet_buffer, FlowIdTag)
    /\ (drr_result.op = "dequeue" /\ drr_result.status = "ok") =>
          AllAcceptedAfter(
              drr_queues[DrrIndexOf(drr_queues, drr_result.packet.priority) + 1]
                  .packet_queue.packet_buffer,
              FlowIdTag, drr_result.packet.flow_id)
    /\ \A k \in 1..Len(wrr_queues) :
          InAcceptanceOrder(wrr_queues[k].packet_queue, FlowIdTag)
    /\ (wrr_result.op = "dequeue" /\ wrr_result.status = "ok") =>
          AllAcceptedAfter(
              wrr_queues[WrrIndexOf(wrr_queues, wrr_result.packet.priority) + 1].packet_queue,
              FlowIdTag, wrr_result.packet.flow_id)
    /\ \A f \in DOMAIN flow_states :
          InAcceptanceOrder(flow_states[f].packet_queue, FlowIdTag)
    /\ (hfsc_result.op = "dequeue" /\ hfsc_result.status = "ok") =>
          AllAcceptedAfter(flow_states[hfsc_result.packet.priority].packet_queue,
                           FlowIdTag, hfsc_result.packet.flow_id)

\* A dequeue returned a packet of a DRR queue that still holds a packet
\* accepted later, with a packet for another queue accepted in between.
C11_Witness ==
    /\ drr_result.op = "dequeue" /\ drr_result.status = "ok"
    /\ LET buffer == drr_queues[DrrIndexOf(drr_queues, drr_result.packet.priority) + 1]
                         .packet_queue.packet_buffer
       IN  /\ buffer # <<>>
           /\ Head(buffer).flow_id > drr_result.packet.flow_id + 1

\* Sum of the lengths of the packets of a buffer.
RECURSIVE BufferBytes(_)
BufferBytes(buffer) ==
    IF buffer = <<>> THEN 0
    ELSE Head(buffer).packet_length_bytes + BufferBytes(Tail(buffer))

\* C13: in a RedAqmQueue, current_total_bytes is the sum of the lengths of the
\* buffered packets and never exceeds queue_capacity_bytes, and the number of
\* buffered packets is the number of accepted enqueues minus the number of
\* dequeues.
C13_AqmAccounting ==
    /\ aqm_queue.current_total_bytes = BufferBytes(aqm_queue.packet_buffer)
    /\ aqm_queue.current_total_bytes <= aqm_queue.params.queue_capacity_bytes
    /\ Len(aqm_queue.packet_buffer) = aqm_accepted - aqm_dequeued

\* The queue holds packets after accepted enqueues, a rejected enqueue and a
\* dequeue.
C13_Witness ==
    /\ aqm_accepted >= 2
    /\ aqm_dequeued >= 1
    /\ aqm_calls > aqm_accepted
    /\ aqm_queue.packet_buffer # <<>>

\* The last call was an enqueue of a packet that did not fit in the bytes left.
AqmLastEnqueueOverflowed ==
    /\ aqm_result.op = "enqueue"
    /\ aqm_prev.current_total_bytes + aqm_result.packet.packet_length_bytes
          > aqm_prev.params.queue_capacity_bytes

\* C14: an enqueue of a packet that would take current_total_bytes above
\* queue_capacity_bytes returns false and leaves the buffer, the byte count,
\* the packet count and packets_since_last_drop as they were.
C14_OverflowRejectsUnchanged ==
    AqmLastEnqueueOverflowed =>
        /\ aqm_result.status = "rejected"
        /\ aqm_queue.packet_buffer = aqm_prev.packet_buffer
        /\ aqm_queue.current_total_bytes = aqm_prev.current_total_bytes
        /\ Len(aqm_queue.packet_buffer) = Len(aqm_prev.packet_buffer)
        /\ aqm_queue.packets_since_last_drop = aqm_prev.packets_since_last_drop

\* PhysicalCapacityDrop, scaled: a queue of capacity 4 that holds two packets
\* of 2 bytes is offered a packet of 1 byte.
C14_Witness ==
    /\ AqmLastEnqueueOverflowed
    /\ aqm_prev.params.queue_capacity_bytes = 4
    /\ Len(aqm_prev.packet_buffer) = 2
    /\ aqm_prev.current_total_bytes = 4
    /\ aqm_prev.packets_since_last_drop = 2
    /\ aqm_result.packet.packet_length_bytes = 1

\* An enqueue call either appended the packet and counted it, or left the
\* buffer and the counter as they were.
CountedIffStored(before, after, packet, total_before, total_after) ==
    \/ after = Append(before, packet) /\ total_after = total_before + 1
    \/ after = before /\ total_after = total_before

SpEnqueueCounts ==
    (sp_calls' # sp_calls /\ sp_result'.status # "out_of_range") =>
        LET k == sp_result'.packet.priority + 1
        IN  /\ CountedIffStored(priority_queues[k].packet_buffer,
                                priority_queues'[k].packet_buffer, sp_result'.packet,
                                sp_total_packets, sp_total_packets')
            /\ (sp_result'.status = "ok") <=> (sp_total_packets' = sp_total_packets + 1)

DrrEnqueueCounts ==
    (drr_calls' # drr_calls /\ drr_result'.status # "out_of_range") =>
        LET k == DrrIndexOf(drr_queues, drr_result'.packet.priority) + 1
        IN  /\ CountedIffStored(drr_queues[k].packet_queue.packet_buffer,
                                drr_queues'[k].packet_queue.packet_buffer,
                                drr_result'.packet, drr_total_packets, drr_total_packets')
            /\ (drr_result'.status = "ok") <=> (drr_total_packets' = drr_total_packets + 1)

\* For a WRR queue the configured RedAqmQueue rejects at least every packet
\* that does not fit in queue_capacity_bytes.
WrrEnqueueCounts ==
    (wrr_calls' # wrr_calls /\ wrr_result'.status # "out_of_range") =>
        LET k == WrrIndexOf(wrr_queues, wrr_result'.packet.priority) + 1
            before == wrr_queues[k].packet_queue
            after == wrr_queues'[k].packet_queue
        IN  /\ CountedIffStored(before, after, wrr_result'.packet,
                                wrr_total_packets, wrr_total_packets')
            /\ (BufferBytes(before) + wrr_result'.packet.packet_length_bytes
                   > WrrQueueCapacityBytes)
                  => (after = before /\ wrr_total_packets' = wrr_total_packets)

\* C15: in the strict-priority, WRR and DRR schedulers an enqueue adds one to
\* total_packets exactly when the target queue's AQM accepts the packet, and
\* leaves the counter and the queue's packets as they were when it rejects.
C15_CounterFollowsAqm ==
    [][SpEnqueueCounts /\ DrrEnqueueCounts /\ WrrEnqueueCounts]_vars

\* C16: get_or_create_flow, called from any threads in any interleaving:
\* calls with equal 5-tuples return the same FlowId, a call for a tuple that
\* an earlier call already returned allocates nothing, and each distinct
\* tuple has exactly one FlowId and (once no call is in progress) exactly one
\* FlowContext, stored under that FlowId.
C16_OneFlowPerTuple ==
    /\ \A i, j \in 1..Len(fc_returns) :
          (i < j /\ fc_returns[i].five_tuple = fc_returns[j].five_tuple) =>
              /\ fc_returns[i].id = fc_returns[j].id
              /\ ~ fc_returns[j].created
    /\ Len(fc_allocated) = Cardinality(DOMAIN flow_key_to_flow_id_map)
    /\ (\A t \in FcThreads : fc_threads[t].pc = "idle") =>
          /\ DOMAIN flow_table =
                {flow_key_to_flow_id_map[k] : k \in DOMAIN flow_key_to_flow_id_map}
          /\ Cardinality(DOMAIN flow_table)
                = Cardinality(DOMAIN flow_key_to_flow_id_map)
          /\ \A id \in DOMAIN flow_table : flow_table[id].flow_id = id

\* Both threads have asked for the same tuple: the call that came first
\* created the flow and the other thread's call returned the same FlowId.
C16_Witness ==
    \E i, j \in 1..Len(fc_returns) :
        /\ i < j
        /\ fc_returns[i].thread # fc_returns[j].thread
        /\ fc_returns[i].five_tuple = fc_returns[j].five_tuple
        /\ fc_returns[i].created
        /\ fc_returns[i].id = fc_returns[j].id

\* C17: FlowIds come from a counter that starts at 1: 0 is never returned,
\* the ids are strictly increasing in the order of allocation (so none is
\* used twice), and calls with distinct tuples return distinct ids.
C17_FlowIdsFromCounter ==
    /\ fc_allocated # <<>> => fc_allocated[1] = 1
    /\ \A i, j \in 1..Len(fc_allocated) : i < j => fc_allocated[i] < fc_allocated[j]
    /\ \A i \in 1..Len(fc_returns) : fc_returns[i].id # 0
    /\ \A i, j \in 1..Len(fc_returns) :
          fc_returns[i].five_tuple # fc_returns[j].five_tuple
              => fc_returns[i].id # fc_returns[j].id

\* Three flows have been created, for three distinct tuples.
C17_Witness ==
    /\ Len(fc_allocated) = 3
    /\ Cardinality({fc_returns[i].five_tuple : i \in 1..Len(fc_returns)}) = 3

\* C18: whatever consume, available_tokens, is_conforming, set_rate and
\* set_capacity calls a TokenBucket gets, at instants that never go back,
\* 0 <= tokens_bytes <= capacity_bytes.
C18_TokensWithinCapacity ==
    /\ 0 <= tb.tokens_bytes
    /\ tb.tokens_bytes <= tb.capacity_bytes

\* set_capacity has just lowered the capacity below the tokens the bucket
\* held, at an instant later than the construction.
C18_Witness ==
    /\ tb_result.op = "set_capacity"
    /\ tb_result.arg < tb_prev.tokens_bytes
    /\ tb_result.arg > 0
    /\ tb_result.at > 0

\* The bucket the last call found, refilled at the instant of the call.
TbRefilledAtCall == refill(tb_prev, tb_result.at)

\* C19: consume(n) returns true exactly when the bucket, refilled at the
\* instant of the call, holds at least n tokens; it then takes exactly n
\* tokens and otherwise none; consume(0) always returns true.
C19_ConsumeContract ==
    tb_result.op = "consume" =>
        /\ tb_result.returned <=> (TbRefilledAtCall.tokens_bytes >= tb_result.arg)
        /\ tb_result.returned =>
              tb.tokens_bytes = TbRefilledAtCall.tokens_bytes - tb_result.arg
        /\ ~ tb_result.returned => tb.tokens_bytes = TbRefilledAtCall.tokens_bytes
        /\ tb_result.arg = 0 => tb_result.returned

\* A consume took every token of a bucket that the refill of the call had
\* just topped up.
C19_Witness ==
    /\ tb_result.op = "consume"
    /\ tb_result.returned
    /\ tb_result.arg > 0
    /\ tb.tokens_bytes = 0
    /\ TbRefilledAtCall.tokens_bytes > tb_prev.tokens_bytes

\* C20: the token count an observer sees at an instant depends on the
\* consume and set calls made so far and on the instant only: it is the count
\* of a bucket that got those calls and no available_tokens or is_conforming
\* call in between.
C20_ObserversLeaveNoTrace ==
    available_tokens(tb, tb_now).returned
        = available_tokens(tb_unobserved, tb_now).returned

-----------------------------------------------------------------------------
\* The payloads of the packets the pipeline's scheduler holds.
PlQueuedPayloads ==
    UNION {{priority_queues[k].packet_buffer[i].payload :
                i \in 1..Len(priority_queues[k].packet_buffer)} :
           k \in 1..Len(priority_queues)}

PlEmittedPayloads == {pl_emitted[i] : i \in 1..Len(pl_emitted)}

PlPacketsHeld ==
    LET held[k \in 0..Len(priority_queues)] ==
            IF k = 0 THEN 0
            ELSE held[k - 1] + Len(priority_queues[k].packet_buffer)
    IN  held[Len(priority_queues)]

\* C12: through the PacketPipeline, the packets the shaper let pass and the
\* scheduler's queue accepted are exactly those still held by the scheduler
\* or already emitted by get_next_packet_to_transmit; none is held twice,
\* emitted twice or both held and emitted, and a packet the shaper dropped is
\* neither held nor emitted.
C12_PipelineEmitsAcceptedOnce ==
    /\ PlQueuedPayloads \cup PlEmittedPayloads = pl_stored
    /\ PlQueuedPayloads \cap PlEmittedPayloads = {}
    /\ Cardinality(PlQueuedPayloads) = PlPacketsHeld
    /\ Cardinality(PlEmittedPayloads) = Len(pl_emitted)
    /\ pl_dropped \cap (PlQueuedPayloads \cup PlEmittedPayloads) = {}
    /\ pl_dropped \cap pl_stored = {}

\* One packet was dropped by the shaper, one was emitted and one is still in
\* the scheduler.
C12_Witness ==
    /\ pl_dropped # {}
    /\ pl_emitted # <<>>
    /\ PlQueuedPayloads # {}
    /\ pl_result.op = "get_next_packet_to_transmit"

-----------------------------------------------------------------------------
\* The step is a handle_incoming_packet call.
PlHandles == pl_calls' = pl_calls + 1

\* The policy the flow of the packet just handled is bound to.
PlPolicyIdHandled == flow_table'[pl_result'.packet.flow_id].policy_id

PlPolicyFound == PlPolicyIdHandled \in DOMAIN policy_tree

\* The buckets of that policy as the call found them, once refilled to the
\* instant of the call.
PlCirAtCall == refill(policy_tree[PlPolicyIdHandled].cir_bucket, tb_now)

PlPirAtCall == refill(policy_tree[PlPolicyIdHandled].pir_bucket, tb_now)

PlDebited(bucket, amount) == [bucket EXCEPT !.tokens_bytes = @ - amount]

\* C21: for a packet of length L the two-rate meter marks GREEN iff the CIR
\* bucket (refilled to the instant of the call) holds L, YELLOW iff it does
\* not and the PIR bucket holds L, and RED otherwise; GREEN debits L from the
\* CIR bucket and, when it holds L, from the PIR bucket; YELLOW debits L from
\* the PIR bucket only; RED debits nothing.
C21_TwoRateMeter ==
    [][PlHandles /\ PlPolicyFound =>
        LET L == pl_result'.packet.packet_length_bytes
            colour == pl_result'.packet.conformance
            cir_after == policy_tree'[PlPolicyIdHandled].cir_bucket
            pir_after == policy_tree'[PlPolicyIdHandled].pir_bucket
            cir_admits == PlCirAtCall.tokens_bytes >= L
            pir_admits == PlPirAtCall.tokens_bytes >= L
        IN  /\ colour = "GREEN" <=> cir_admits
            /\ colour = "YELLOW" <=> ~ cir_admits /\ pir_admits
            /\ colour = "RED" <=> ~ cir_admits /\ ~ pir_admits
            /\ colour = "GREEN" =>
                 /\ cir_after = PlDebited(PlCirAtCall, L)
                 /\ pir_after = IF pir_admits THEN PlDebited(PlPirAtCall, L)
                                 ELSE PlPirAtCall
            /\ colour = "YELLOW" =>
                 /\ cir_after = PlCirAtCall
                 /\ pir_after = PlDebited(PlPirAtCall, L)
            /\ colour = "RED" =>
                 /\ cir_after = PlCirAtCall
                 /\ pir_after = PlPirAtCall]_vars

\* The third packet under policy 3 is GREEN and both buckets are empty with
\* no refill since they were built: of the 3 bytes of the PIR bucket only 2
\* went to packets that debited the CIR bucket's 2 bytes too, so the packets
\* were GREEN (1 byte), YELLOW (2 bytes), and the last one, GREEN (1 byte),
\* found the PIR bucket empty.
C21_Witness ==
    /\ pl_result.op = "handle_incoming_packet"
    /\ pl_result.packet.conformance = "GREEN"
    /\ pl_calls = 3
    /\ default_policy_id = 3
    /\ policy_tree[3].cir_bucket.tokens_bytes = 0
    /\ policy_tree[3].pir_bucket.tokens_bytes = 0
    /\ policy_tree[3].pir_bucket.last_refill_time = 0
    /\ tb_now = 0

\* The call before this step was a handle_incoming_packet at this very
\* instant whose packet the shaper marked RED and dropped under the
\* drop_on_red policy of its flow.
PlLastDroppedRedNow ==
    /\ pl_result.op = "handle_incoming_packet"
    /\ pl_result.status = "shaper_drop"
    /\ pl_result.packet.conformance = "RED"
    /\ flow_table[pl_result.packet.flow_id].policy_id \in DOMAIN policy_tree
    /\ pl_result.at = tb_now

\* C22: with no time elapsing between arrivals, the packet of a flow that
\* follows a packet of that flow marked RED and dropped under a drop_on_red
\* policy is marked RED and dropped too, whatever its length.
C22_RedStaysRed ==
    [][PlHandles /\ PlLastDroppedRedNow
          /\ pl_result'.packet.flow_id = pl_result.packet.flow_id
        => /\ pl_result'.packet.conformance = "RED"
           /\ pl_result'.status = "shaper_drop"]_vars

\* The 1000-byte packet of the shaper tests, in the unit in which policy 1
\* has CBS 3 and EBS 6.
PlScenarioPacketLength == 2

\* Two scenario packets of the only flow, bound to policy 1, were handled
\* since the policy was built, with no time elapsed: the first was GREEN
\* (it took its bytes from the CIR bucket), the second YELLOW.
PlTwoScenarioPacketsHandled ==
    /\ pl_calls = 2
    /\ tb_now = 0
    /\ default_policy_id = 1
    /\ next_flow_id = 2
    /\ pl_result.packet.conformance = "YELLOW"
    /\ pl_result.packet.packet_length_bytes = PlScenarioPacketLength
    /\ policy_tree[1].cir_bucket.tokens_bytes =
           policy_tree[1].cir_bucket.capacity_bytes - PlScenarioPacketLength

\* C23: under the scenario policy, the third of three scenario packets of
\* one flow submitted back-to-back, after a GREEN and a YELLOW one, is RED.
C23_ColourEscalation ==
    [][PlHandles /\ PlTwoScenarioPacketsHandled
          /\ pl_result'.packet.flow_id = pl_result.packet.flow_id
          /\ pl_result'.packet.packet_length_bytes = PlScenarioPacketLength
        => pl_result'.packet.conformance = "RED"]_vars

\* The policy's target priority for a colour.
PlTargetPriority(policy, colour) ==
    IF colour = "GREEN" THEN policy.target_priority_green
    ELSE IF colour = "YELLOW" THEN policy.target_priority_yellow
    ELSE policy.target_priority_red

\* C24: whenever the flow's policy is found, the descriptor leaves
\* process_packet with the policy's target priority for the colour it was
\* given, a RED packet that is dropped included.
C24_PriorityWrittenForEveryColour ==
    [][PlHandles /\ PlPolicyFound =>
        pl_result'.packet.priority =
            PlTargetPriority(policy_tree[PlPolicyIdHandled],
                             pl_result'.packet.conformance)]_vars

\* C25: process_packet returns drop iff the flow's policy is missing from
\* the policy tree or the packet was marked RED under a drop_on_red policy,
\* and returns enqueue otherwise; with the policy missing the descriptor is
\* marked RED and no token bucket changes.
C25_DropIffMissingOrRedUnderDropOnRed ==
    [][PlHandles =>
        LET returned_drop == pl_result'.status = "shaper_drop"
            returned_enqueue == pl_result'.status \in {"ok", "dropped", "out_of_range"}
            red == pl_result'.packet.conformance = "RED"
        IN  /\ returned_drop \/ returned_enqueue
            /\ returned_drop <=>
                 \/ ~ PlPolicyFound
                 \/ red /\ policy_tree[PlPolicyIdHandled].drop_on_red
            /\ ~ PlPolicyFound => red /\ policy_tree' = policy_tree]_vars

\* The last packet was marked RED under a policy that keeps RED packets and
\* went to the scheduler.
C25_Witness ==
    /\ pl_result.op = "handle_incoming_packet"
    /\ pl_result.packet.conformance = "RED"
    /\ default_policy_id \in DOMAIN policy_tree
    /\ ~ policy_tree[default_policy_id].drop_on_red
    /\ pl_result.status = "ok"

\* The step is a get_next_packet_to_transmit call.
PlGetsNext == pl_calls' = pl_calls /\ tb_now' = tb_now

RECURSIVE DrrPacketsHeld(_, _)
DrrPacketsHeld(queues, k) ==
    IF k = 0 THEN 0
    ELSE DrrPacketsHeld(queues, k - 1) + Len(queues[k].packet_queue.packet_buffer)

\* C26: with a DrrScheduler plugged in, get_next_packet_to_transmit yields
\* the default descriptor (length 0) exactly when the scheduler holds no
\* packets, and pops and returns exactly one packet whenever it holds one.
C26_GetNextPopsOneUnlessEmpty ==
    [][PlGetsNext =>
        LET held == DrrPacketsHeld(drr_queues, Len(drr_queues))
            held_after == DrrPacketsHeld(drr_queues', Len(drr_queues'))
        IN  IF held = 0
            THEN /\ pl_result'.status = "none"
                 /\ pl_result'.packet = DefaultPacket
                 /\ held_after = 0
            ELSE /\ pl_result'.status = "ok"
                 /\ pl_result'.packet.packet_length_bytes > 0
                 /\ held_after = held - 1]_vars

\* The pipeline call of this step raised an error.
PlRaised ==
    /\ PlHandles \/ PlGetsNext
    /\ pl_result'.status \in {"out_of_range", "runtime_error", "logic_error"}

\* C27: a handle_incoming_packet or get_next_packet_to_transmit call that
\* raises an error leaves the flow table, the FlowId counter, the policies'
\* token buckets and the scheduler as they were before the call.
C27_ErrorsMutateNothing ==
    [][PlRaised =>
        /\ flow_table' = flow_table
        /\ flow_key_to_flow_id_map' = flow_key_to_flow_id_map
        /\ next_flow_id' = next_flow_id
        /\ policy_tree' = policy_tree
        /\ priority_queues' = priority_queues
        /\ sp_total_packets' = sp_total_packets]_vars

-----------------------------------------------------------------------------
\* C28: no scheduler object exists in an unconfigured state: a constructor
\* given an empty configuration fails, so every scheduler that was built has
\* at least one level, queue or flow and is configured.
C28_NoUnconfiguredScheduler ==
    /\ Len(priority_queues) > 0
    /\ Len(drr_queues) > 0
    /\ Len(wrr_queues) > 0
    /\ is_configured /\ DOMAIN flow_states # {}

\* C29: RedAqmParameters construction succeeds exactly when
\* 0 < min_threshold < max_threshold <= capacity, max_probability is in
\* (0, 1] and ewma_weight is in (0, 1], and is an error otherwise.
C29_RedAqmParametersValidation ==
    aqm_result.op = "RedAqmParameters" =>
        LET a == aqm_result.args
        IN  aqm_result.status = "ok" <=>
              /\ 0 < a.min_threshold_bytes
              /\ a.min_threshold_bytes < a.max_threshold_bytes
              /\ a.max_threshold_bytes <= a.queue_capacity_bytes
              /\ RatLess(RatOfInt(0), a.max_probability)
              /\ RatLeq(a.max_probability, RatOfInt(1))
              /\ RatLess(RatOfInt(0), a.ewma_weight)
              /\ RatLeq(a.ewma_weight, RatOfInt(1))

\* The statuses that stand for an exception.
Raised == {"out_of_range", "runtime_error", "logic_error"}

\* StrictPriorityScheduler: enqueue to a level that is not configured, and
\* dequeue with no packet held.
SpFailsCleanly ==
    /\ (sp_calls' # sp_calls /\ sp_result'.packet.priority >= Len(priority_queues)) =>
         /\ sp_result'.status \in Raised
         /\ UNCHANGED <<priority_queues, sp_total_packets>>
    /\ (sp_calls' = sp_calls /\ sp_result'.op = "dequeue"
          /\ \A k \in 1..Len(priority_queues) : priority_queues[k].packet_buffer = <<>>) =>
         /\ sp_result'.status \in Raised
         /\ UNCHANGED <<priority_queues, sp_total_packets>>

DrrFailsCleanly ==
    /\ (drr_calls' # drr_calls
          /\ \A i \in 1..Len(drr_queues) :
               drr_queues[i].external_id # drr_result'.packet.priority) =>
         /\ drr_result'.status \in Raised
         /\ UNCHANGED <<drr_queues, drr_total_packets, drr_current_queue_index>>
    /\ (drr_calls' = drr_calls /\ drr_result'.op = "dequeue"
          /\ DrrPacketsHeld(drr_queues, Len(drr_queues)) = 0) =>
         /\ drr_result'.status \in Raised
         /\ UNCHANGED <<drr_queues, drr_total_packets, drr_current_queue_index>>

WrrFailsCleanly ==
    /\ (wrr_calls' # wrr_calls
          /\ \A i \in 1..Len(wrr_queues) :
               wrr_queues[i].external_id # wrr_result'.packet.priority) =>
         /\ wrr_result'.status \in Raised
         /\ UNCHANGED <<wrr_queues, wrr_total_packets, wrr_current_queue_index>>
    /\ (wrr_calls' = wrr_calls /\ wrr_result'.op = "dequeue"
          /\ \A i \in 1..Len(wrr_queues) : wrr_queues[i].packet_queue = <<>>) =>
         /\ wrr_result'.status \in Raised
         /\ UNCHANGED <<wrr_queues, wrr_total_packets, wrr_current_queue_index>>

HfscFailsCleanly ==
    /\ (hfsc_calls' # hfsc_calls
          /\ hfsc_result'.packet.priority \notin DOMAIN flow_states) =>
         /\ hfsc_result'.status \in Raised
         /\ UNCHANGED <<flow_states, hfsc_total_packets, eligible_set,
                        current_virtual_time>>
    /\ (hfsc_calls' = hfsc_calls /\ hfsc_result'.op = "dequeue"
          /\ \A f \in DOMAIN flow_states : flow_states[f].packet_queue = <<>>) =>
         /\ hfsc_result'.status \in Raised
         /\ UNCHANGED <<flow_states, hfsc_total_packets, eligible_set,
                        current_virtual_time>>

\* C30: every scheduler raises an error and stores, removes and counts
\* nothing when dequeue is called while it holds no packet and when enqueue
\* names a priority level, queue id or flow id that is not configured.
C30_SchedulersFailCleanly ==
    [][SpFailsCleanly /\ DrrFailsCleanly /\ WrrFailsCleanly /\ HfscFailsCleanly]_vars

\* A DRR scheduler refused a packet for a queue id it does not have, after it
\* had stored and sent another: it is empty again and counts one enqueue more
\* than it sent.
C30_Witness ==
    /\ drr_result.op = "enqueue"
    /\ drr_result.status = "out_of_range"
    /\ drr_calls >= 2
    /\ drr_total_packets = 0
    /\ \E i \in 1..Len(drr_queues) : drr_queues[i].deficit_counter > 0

-----------------------------------------------------------------------------
\* C31: after any sequence of insert, erase and modify on the PolicyTree,
\* every policy whose parent_id is not NO_PARENT_POLICY_ID has a parent: a
\* policy with that id is in the tree.
C31_EveryParentPresent ==
    \A p_id \in DOMAIN pt_tree :
        pt_tree[p_id].parent_id # NO_PARENT_POLICY_ID
            => pt_tree[p_id].parent_id \in DOMAIN pt_tree

-----------------------------------------------------------------------------
\* C32: within one WRR replenishment cycle in which every queue holds a packet
\* at each dequeue, no queue is served more than its weight; when the cycle
\* ends (the next dequeue replenishes) with every queue still holding a packet,
\* each queue has been served exactly its weight; and each dequeue takes the
\* first queue, from the cursor round, that has not had its weight yet.
WrrWeightsServed(cycle) ==
    \A i \in DOMAIN wrr_queues : cycle.served[i] = wrr_queues[i].weight

C32_WeightPerCycleInCursorOrder ==
    [][wrr_total_packets' = wrr_total_packets - 1 =>
         LET n == Len(wrr_queues)
             k == WrrServedIndex(wrr_queues, wrr_current_queue_index')
             skipped == {(wrr_current_queue_index + d) % n :
                           d \in {e \in 0..(n - 1) :
                                    e < (k + n - wrr_current_queue_index) % n}}
         IN  /\ wrr_cycle'.backlogged =>
                   \A i \in DOMAIN wrr_queues :
                       wrr_cycle'.served[i] <= wrr_queues[i].weight
             /\ WrrReplenishes /\ wrr_cycle.backlogged /\ WrrAllBacklogged(wrr_queues)
                   => WrrWeightsServed(wrr_cycle)
             /\ wrr_cycle'.backlogged =>
                   \A j \in skipped :
                       wrr_cycle'.served[j + 1] = wrr_queues[j + 1].weight]_vars

\* The second cycle of the weights 1 and 2 has served one and two packets and
\* is about to end, every queue still holding a packet.
C32_Witness ==
    /\ wrr_queues[1].weight = 1 /\ wrr_queues[2].weight = 2
    /\ wrr_cycle.backlogged
    /\ wrr_cycle.served = <<1, 2>>
    /\ wrr_calls - wrr_total_packets = 6
    /\ WrrAllBacklogged(wrr_queues)
    /\ WrrReplenishes

-----------------------------------------------------------------------------
\* The queue of the last enqueue after its update_average_queue_size, the
\* base probability p_b it computed, and whether the packet met a full buffer.
AqmAtLastEnqueue == update_average_queue_size(aqm_prev)

AqmBaseProbability == calculate_drop_probability(AqmAtLastEnqueue)

AqmOverflowed ==
    aqm_prev.current_total_bytes + aqm_result.packet.packet_length_bytes
        > aqm_prev.params.queue_capacity_bytes

\* C33: gentle RED bounds every run of acceptances. For an enqueue that
\* computes p_b > 0: when packets_since_last_drop * p_b has reached 1 the
\* packet is refused (by RED, which clears the counter, unless the buffer was
\* full); and when the packet is accepted, the acceptances since the last RED
\* drop, this one included, number at most ceil(1 / p_b).
C33_GentleRedBoundsAcceptances ==
    (aqm_result.op = "enqueue" /\ ~ AqmOverflowed /\ AqmBaseProbability.num > 0) =>
        LET p_b == AqmBaseProbability
            count == aqm_prev.packets_since_last_drop
            ceiling == (p_b.den + p_b.num - 1) \div p_b.num
        IN  /\ count * p_b.num >= p_b.den =>
                /\ aqm_result.status = "rejected"
                /\ aqm_queue.packets_since_last_drop = 0
            /\ aqm_result.status = "ok" =>
                /\ aqm_queue.packets_since_last_drop = count + 1
                /\ aqm_queue.packets_since_last_drop <= ceiling

\* Three packets were accepted since the last RED drop and the fourth met a
\* base probability of at least a third: it was dropped by RED.
C33_Witness ==
    /\ aqm_result.op = "enqueue" /\ aqm_result.status = "rejected"
    /\ ~ AqmOverflowed
    /\ aqm_prev.packets_since_last_drop = 3
    /\ AqmBaseProbability.num > 0
    /\ 3 * AqmBaseProbability.num >= AqmBaseProbability.den
    /\ aqm_queue.packets_since_last_drop = 0

-----------------------------------------------------------------------------
\* C36: packets_since_last_drop is cleared exactly by a RED drop (an enqueue
\* refused though the packet fitted), grows by one with every accepted packet,
\* and is left as it was by an enqueue refused for physical overflow and by
\* dequeue, whether it returns a packet or throws.
C36_CountSinceLastDrop ==
    LET before == aqm_prev.packets_since_last_drop
        after == aqm_queue.packets_since_last_drop
    IN  /\ (aqm_result.op = "enqueue" /\ aqm_result.status = "ok") => after = before + 1
        /\ (aqm_result.op = "enqueue" /\ aqm_result.status = "rejected") =>
               after = IF AqmOverflowed THEN before ELSE 0
        /\ aqm_result.op = "dequeue" => after = before

\* A dequeue returned a packet and left a positive count as it was.
C36_Witness ==
    /\ aqm_result.op = "dequeue" /\ aqm_result.status = "ok"
    /\ aqm_prev.packets_since_last_drop = 2
    /\ aqm_queue.packets_since_last_drop = 2

-----------------------------------------------------------------------------
\* A dequeue has just returned a packet of a flow that holds more packets.
HfscEmitsWithMore ==
    /\ hfsc_emitted' = hfsc_emitted + 1
    /\ flow_states'[hfsc_result'.packet.priority].packet_queue # <<>>

\* The flow states inside that dequeue after the pop and the update of
\* virtual_finish_time_ul, before the flow is scheduled again.
HfscPopped ==
    LET f == hfsc_result'.packet.priority
    IN  [flow_states' EXCEPT
           ![f].virtual_start_time = flow_states[f].virtual_start_time,
           ![f].virtual_finish_time = flow_states[f].virtual_finish_time]

\* C35: after dequeue returns a packet of a flow that holds more packets, the
\* flow's virtual_start_time, virtual_finish_time, virtual_finish_time_ul and
\* the eligible set are those update_flow_schedule(flow, false) computes for
\* the new head packet from the new virtual time, upper-limit step and parent
\* cascade included.
C35_DequeueReschedulesAsUpdateFlowSchedule ==
    [][HfscEmitsWithMore =>
         LET f == hfsc_result'.packet.priority
             r == update_flow_schedule(HfscPopped, current_virtual_time',
                                       Tail(eligible_set), f, FALSE)
         IN  /\ flow_states'[f] = r.flow_states[f]
             /\ eligible_set' = r.eligible_set]_vars

-----------------------------------------------------------------------------
\* C34: the HFSC emission order is a function of the call sequence. Whatever
\* the layout of the heap, dequeue has one choice: the entries of the eligible
\* set are pairwise different, and the packet returned belongs to the entry
\* every other entry is above, by later virtual finish time or, at the same
\* finish time, by larger flow id (equal finish times leave in ascending
\* flow-id order).
C34_EmissionOrderDetermined ==
    [][hfsc_emitted' = hfsc_emitted + 1 =>
         LET emitted_flow == hfsc_result'.packet.priority
             positions == 1..Len(eligible_set)
         IN  /\ \A i, j \in positions : i # j => eligible_set[i] # eligible_set[j]
             /\ \E i \in positions :
                  /\ eligible_set[i].flow_id = emitted_flow
                  /\ eligible_set[i].virtual_finish_time = current_virtual_time'
                  /\ \A j \in positions \ {i} :
                       \/ eligible_set[j].virtual_finish_time
                              > eligible_set[i].virtual_finish_time
                       \/ /\ eligible_set[j].virtual_finish_time
                                = eligible_set[i].virtual_finish_time
                          /\ eligible_set[j].flow_id > emitted_flow]_vars

\* Two flows were eligible with the same virtual finish time: the packet of
\* flow 1 has left, the entry of flow 2 still waits at that finish time.
C34_Witness ==
    /\ hfsc_result.op = "dequeue" /\ hfsc_result.status = "ok"
    /\ hfsc_result.packet.priority = 1
    /\ \E i \in 1..Len(eligible_set) :
         /\ eligible_set[i].flow_id = 2
         /\ eligible_set[i].virtual_finish_time = current_virtual_time

-----------------------------------------------------------------------------
\* The sum of the numbers a function holds.
RECURSIVE SumOver(_)
SumOver(f) ==
    IF DOMAIN f = {} THEN 0
    ELSE LET k == CHOOSE x \in DOMAIN f : TRUE
         IN  f[k] + SumOver([x \in DOMAIN f \ {k} |-> f[x]])

\* get_current_packet_count of every strict-priority and DRR queue, size()
\* of every WRR and HFSC queue.
SpQueueCounts == [i \in DOMAIN priority_queues |-> Len(priority_queues[i].packet_buffer)]

DrrQueueCounts ==
    [i \in DOMAIN drr_queues |-> Len(drr_queues[i].packet_queue.packet_buffer)]

WrrQueueCounts == [i \in DOMAIN wrr_queues |-> Len(wrr_queues[i].packet_queue)]

HfscQueueCounts == [id \in DOMAIN flow_states |-> Len(flow_states[id].packet_queue)]

\* C37: in every scheduler, after every enqueue and dequeue, refused packets
\* and raised errors included, total_packets is the sum of the packet counts
\* of the scheduler's queues; so is_empty() holds exactly when every queue is
\* empty, and the inconsistent-state std::logic_error of the strict-priority
\* and the WRR dequeue is never raised.
C37_TotalPacketsIsSumOfQueues ==
    /\ sp_total_packets = SumOver(SpQueueCounts)
    /\ drr_total_packets = SumOver(DrrQueueCounts)
    /\ wrr_total_packets = SumOver(WrrQueueCounts)
    /\ hfsc_total_packets = SumOver(HfscQueueCounts)
    /\ SpIsEmpty <=> \A i \in DOMAIN priority_queues : AqmIsEmpty(priority_queues[i])
    /\ DrrIsEmpty <=> \A i \in DOMAIN drr_queues : AqmIsEmpty(drr_queues[i].packet_queue)
    /\ WrrIsEmpty <=> \A i \in DOMAIN wrr_queues : wrr_queues[i].packet_queue = <<>>
    /\ HfscIsEmpty <=> \A id \in DOMAIN flow_states : flow_states[id].packet_queue = <<>>
    /\ sp_result.status # "logic_error"
    /\ wrr_result.status # "logic_error"

\* A strict-priority scheduler that holds two packets has just had a third
\* refused by the queue of its level.
C37_Witness ==
    /\ sp_result.op = "enqueue" /\ sp_result.status = "dropped"
    /\ sp_total_packets = 2
    /\ SumOver(SpQueueCounts) = 2

-----------------------------------------------------------------------------
\* The positions of the eligible set that hold an entry of a flow.
HfscEntriesOf(id) == {i \in 1..Len(eligible_set) : eligible_set[i].flow_id = id}

\* C38: after every HFSC enqueue and dequeue the eligible set holds exactly
\* one entry for each flow with a non-empty queue and a non-zero RT or LS
\* rate, keyed by the flow's current virtual_finish_time, and no entry for any
\* other flow; so the flow dequeue selects always holds a packet.
C38_EligibleSetMatchesBacklog ==
    /\ \A id \in DOMAIN flow_states :
         LET flow_state == flow_states[id]
         IN  IF /\ flow_state.packet_queue # <<>>
                /\ \/ flow_state.real_time_sc.rate_bps > 0
                   \/ flow_state.link_share_sc.rate_bps > 0
             THEN /\ Cardinality(HfscEntriesOf(id)) = 1
                  /\ \A i \in HfscEntriesOf(id) :
                       eligible_set[i].virtual_finish_time
                           = flow_state.virtual_finish_time
             ELSE HfscEntriesOf(id) = {}
    /\ \A i \in 1..Len(eligible_set) : eligible_set[i].flow_id \in DOMAIN flow_states
    /\ eligible_set # <<>> =>
         flow_states[Head(eligible_set).flow_id].packet_queue # <<>>

\* Two flows are backlogged, one of them served once already and scheduled
\* again, and each has its entry.
C38_Witness ==
    /\ hfsc_result.op = "dequeue" /\ hfsc_result.status = "ok"
    /\ Len(eligible_set) = 2
    /\ flow_states[hfsc_result.packet.priority].packet_queue # <<>>
    /\ Cardinality(HfscEntriesOf(hfsc_result.packet.priority)) = 1

-----------------------------------------------------------------------------
\* C39: the deficit of every WRR queue stays within 0 and twice the queue's
\* weight at all times: it never goes negative, and a queue that sits idle
\* while others are served banks no credit over successive replenishments.
C39_DeficitWithinTwiceWeight ==
    \A i \in 1..Len(wrr_queues) :
        /\ 0 <= wrr_queues[i].current_deficit
        /\ wrr_queues[i].current_deficit <= 2 * wrr_queues[i].weight

-----------------------------------------------------------------------------
\* C40: with process_packet on one thread and get_or_create_flow on another,
\* against the same classifier and flow table, the shaper's read of the flow
\* table (the FlowContext lookup after classification) never stands beside an
\* insertion by the classifier: while the shaper is at flow_table_.find, no
\* other thread is inside get_or_create_flow at flow_table_.emplace.
C40_ShaperReadExcludesInsertion ==
    shaper_thread.pc = "find" =>
        \A t \in ShOtherThreads : fc_threads[t].pc # "emplace"

====
